---- MODULE Spec2Model ----
(***************************************************************************)
(* The query/sort form store of the search widget, in its two variants:    *)
(* the column-based SearchProvider (context/search-provider.tsx) and the   *)
(* field-list SearchProvider (context/search-context.tsx, second part).    *)
(* One action per store mutator; each action is one UI event run to        *)
(* completion together with the state updates it queues and the effects    *)
(* they trigger.  The option requests of the column-based provider         *)
(* (loadOptions and the params watch effect) settle in actions of their    *)
(* own.                                                                    *)
(***************************************************************************)
EXTENDS Integers, Sequences, FiniteSets, TLC

VARIABLES
    props,               \* [variant, autoQuery, disableConditions, initialQueryForm, requests]
    queryForm,           \* live query form: entries [key, fv] in insertion order
    hasSubmitted,        \* "has submitted" flag
    submittedQueryForm,  \* query snapshot
    sortForm,            \* live sort list
    submittedSortForm,   \* sort snapshot
    onSubmitCalls,       \* the last payload handed to onSubmit (<<>> when never called)
    onSubmitRuns,        \* number of onSubmit invocations the last operation made
    fieldOptions,        \* option list per key, NoOptions where the object has no entry
    loadingRef,          \* loadingRef.current: per key, a request is outstanding
    fetches,             \* per key, the params of the requests in flight, oldest first
    overtaken,           \* per key, how many requests in flight are older than the
                         \* request whose result was applied last
    call,                \* a call of a utility function: its arguments and result
    state,               \* the state of useHttp: [data, loading, error]
    pending,             \* the requests issued through useHttp that have not settled
    lastOp,              \* name of the operation that ran last
    resubmitted,         \* the last two operations were both submit()
    edits,               \* number of live-edit operations run so far
    crashed              \* a state updater threw: the provider is unmounted

vars == <<props, queryForm, hasSubmitted, submittedQueryForm, sortForm,
          submittedSortForm, onSubmitCalls, onSubmitRuns, fieldOptions, loadingRef,
          fetches, overtaken, call, state, pending, lastOp, resubmitted, edits, crashed>>

-----------------------------------------------------------------------------
(* Bounds of the model *)

MaxEdits == 2

\* requests issued through useHttp and not settled
MaxRequests == 3

-----------------------------------------------------------------------------
(* JavaScript values.  Every value is a record of the same shape so that    *)
(* any two values can be compared: k is the typeof/kind tag, s the          *)
(* characters of a string, n a number, a the elements of an array (or the   *)
(* `value` property of an object), c the `condition` property of an object. *)

Absent == "<undefined>"      \* an undefined condition / type / order slot

JsValue(k, s, n, a, c) == [k |-> k, s |-> s, n |-> n, a |-> a, c |-> c]

Undefined == JsValue("undefined", <<>>, 0, <<>>, Absent)
Null      == JsValue("null", <<>>, 0, <<>>, Absent)
Str(s)    == JsValue("string", s, 0, <<>>, Absent)
Num(n)    == JsValue("number", <<>>, n, <<>>, Absent)
Arr(a)    == JsValue("array", <<>>, 0, a, Absent)
\* true and false: n is 1 and 0
Bool(b)   == JsValue("boolean", <<>>, IF b THEN 1 ELSE 0, <<>>, Absent)
\* the object literal {value: v, condition: c}
Obj(v, c) == JsValue("object", <<>>, 0, <<v>>, c)
\* the object literal {value: v, condition: c, type: t}; s holds the type property
ObjT(v, c, t) == JsValue("object", <<t>>, 0, <<v>>, c)

EmptyString == Str(<<>>)

\* value === undefined || value === null
IsNullish(v) == v.k \in {"undefined", "null"}

\* value === undefined || value === null || value === ""
IsEmptyScalar(v) == IsNullish(v) \/ v = EmptyString

\* a ?? b
Coalesce(a, b) == IF IsNullish(a) THEN b ELSE a

\* a ?? b on condition / type slots, where only undefined is nullish
CoalesceS(a, b) == IF a = Absent THEN b ELSE a

\* a || b on type slots: undefined and "" are falsy
OrS(a, b) == IF a = Absent \/ a = "" THEN b ELSE a

\* value?.value  (undefined unless the value is an object with that property)
PropValue(v) == IF v.k = "object" /\ Len(v.a) > 0 THEN v.a[1] ELSE Undefined

\* value?.condition
PropCondition(v) == IF v.k = "object" THEN v.c ELSE Absent

\* value?.type
PropType(v) == IF v.k = "object" /\ Len(v.s) > 0 THEN v.s[1] ELSE Absent

-----------------------------------------------------------------------------
(* Strings are sequences of one-character strings. *)

IsSpace(ch) == ch \in {" ", "\n"}

RECURSIVE TrimStart(_)
TrimStart(s) == IF s = <<>> THEN <<>>
                ELSE IF IsSpace(Head(s)) THEN TrimStart(Tail(s)) ELSE s

RECURSIVE TrimEnd(_)
TrimEnd(s) == IF s = <<>> THEN <<>>
              ELSE IF IsSpace(s[Len(s)]) THEN TrimEnd(SubSeq(s, 1, Len(s) - 1)) ELSE s

\* String.prototype.trim
Trim(s) == TrimEnd(TrimStart(s))

\* String.prototype.split("\n"): the pieces between newlines, empty pieces kept
RECURSIVE SplitLines(_, _)
SplitLines(s, cur) ==
    IF s = <<>> THEN <<cur>>
    ELSE IF Head(s) = "\n" THEN <<cur>> \o SplitLines(Tail(s), <<>>)
    ELSE SplitLines(Tail(s), Append(cur, Head(s)))

RECURSIVE SelectSeqNonEmpty(_)
SelectSeqNonEmpty(ls) ==
    IF ls = <<>> THEN <<>>
    ELSE IF Head(ls) = <<>> THEN SelectSeqNonEmpty(Tail(ls))
    ELSE <<Head(ls)>> \o SelectSeqNonEmpty(Tail(ls))

\* value.split("\n").map((line) => line.trim()).filter((line) => line !== "")
TextareaLines(s) ==
    LET pieces == SplitLines(s, <<>>)
    IN  SelectSeqNonEmpty([i \in 1..Len(pieces) |-> Trim(pieces[i])])

\* the line array as a JS value
LinesValue(s) ==
    LET ls == TextareaLines(s) IN Arr([i \in 1..Len(ls) |-> Str(ls[i])])

-----------------------------------------------------------------------------
(* Descriptors.  The column list handed to the column-based provider and    *)
(* the field / sort lists handed to the field-list provider declare the     *)
(* same attributes.                                                         *)

Column(key, valueType, initialValue, defaultCondition, order, hideInSearch, sorter, defaultSortOrder) ==
    [key |-> key, valueType |-> valueType, initialValue |-> initialValue,
     defaultCondition |-> defaultCondition, order |-> order,
     hideInSearch |-> hideInSearch, sorter |-> sorter,
     defaultSortOrder |-> defaultSortOrder]

\* props.columns of the column-based provider
columns == <<
    Column("name",   Absent,     Undefined,      Absent,        0, FALSE, FALSE, Absent),
    Column("tags",   "textarea", Undefined,      Absent,        0, FALSE, FALSE, Absent),
    Column("age",    "digit",    Undefined,      "greaterThan", 1, FALSE, TRUE,  "descend"),
    Column("status", "select",   Str(<<"o">>),   Absent,        0, FALSE, FALSE, Absent),
    Column("price",  "money",    Undefined,      Absent,        0, FALSE, FALSE, Absent),
    Column("score",  "digit",    Undefined,      Absent,        0, TRUE,  TRUE,  Absent),
    Column("count",  "number",   Undefined,      Absent,        0, FALSE, FALSE, Absent),
    Column("born",   "date",     Undefined,      Absent,        0, FALSE, FALSE, Absent),
    Column("seen",   "dateTime", Undefined,      Absent,        0, FALSE, FALSE, Absent),
    Column("option", Absent,     Undefined,      Absent,        0, FALSE, TRUE,  "ascend") >>

FieldConfig(key, type, defaultValue, defaultCondition, order, render) ==
    [key |-> key, type |-> type, defaultValue |-> defaultValue,
     defaultCondition |-> defaultCondition, order |-> order, render |-> render]

\* props.queryFields of the field-list provider
rawQueryFields == <<
    FieldConfig("name",   "input",    Undefined,    Absent,        0, FALSE),
    FieldConfig("tags",   "textarea", Undefined,    Absent,        0, FALSE),
    FieldConfig("age",    "number",   Undefined,    "greaterThan", 1, FALSE),
    FieldConfig("status", "select",   Str(<<"o">>), Absent,        0, FALSE),
    FieldConfig("price",  "number",   Undefined,    Absent,        0, FALSE),
    FieldConfig("born",   "date",     Undefined,    Absent,        0, FALSE) >>

\* props.sortFields of the field-list provider
FL_sortFields == <<
    [key |-> "age",   direction |-> "desc"],
    [key |-> "score", direction |-> Absent] >>

\* a key no descriptor declares
GhostKey == "ghost"

\* Array.prototype.sort((a, b) => (b.order ?? 0) - (a.order ?? 0)): stable,
\* larger order first
RECURSIVE InsertByOrder(_, _)
InsertByOrder(sorted, f) ==
    IF sorted = <<>> THEN <<f>>
    ELSE IF Head(sorted).order >= f.order
         THEN <<Head(sorted)>> \o InsertByOrder(Tail(sorted), f)
         ELSE <<f>> \o sorted

RECURSIVE SortByOrder(_)
SortByOrder(fs) ==
    IF fs = <<>> THEN <<>>
    ELSE InsertByOrder(SortByOrder(SubSeq(fs, 1, Len(fs) - 1)), fs[Len(fs)])

IsFieldKey(col) == col.key # "" /\ col.key # "action" /\ col.key # "option"

IsQueryColumn(col) == IsFieldKey(col) /\ ~col.hideInSearch

IsSortColumn(col) == IsFieldKey(col) /\ col.sorter

\* the column-based provider's queryFields and sortFields
queryFields == SortByOrder(SelectSeq(columns, IsQueryColumn))

sortFields == SelectSeq(columns, IsSortColumn)

\* the field-list provider's queryFields
FL_queryFields == SortByOrder(rawQueryFields)

\* queryFields.find((f) => key of f === key): the sequence of matches, first one used
FindField(fields, key) == SelectSeq(fields, LAMBDA f : f.key = key)

HasField(fields, key) == \E i \in 1..Len(fields) : fields[i].key = key

-----------------------------------------------------------------------------
(* Query forms: the entries of the object in insertion order. *)

FieldValue(value, condition, type) == [value |-> value, condition |-> condition, type |-> type]

Entry(key, fv) == [key |-> key, fv |-> fv]

Has(form, key) == \E i \in 1..Len(form) : form[i].key = key

Get(form, key) == form[CHOOSE i \in 1..Len(form) : form[i].key = key].fv

\* { ...form, [key]: fv }
Put(form, key, fv) ==
    IF Has(form, key)
    THEN [i \in 1..Len(form) |-> IF form[i].key = key THEN Entry(key, fv) ELSE form[i]]
    ELSE Append(form, Entry(key, fv))

\* delete form[key]
Delete(form, key) == SelectSeq(form, LAMBDA e : e.key # key)

Keys(form) == {form[i].key : i \in 1..Len(form)}

\* the caller-supplied initial query forms the model starts from
InitialQueryForms == {
    <<>>,
    <<Entry("name", FieldValue(Str(<<"a">>), "include", Absent))>> }

\* value / condition / type a column's field starts with
ColumnInitialValue(field) ==
    Coalesce(field.initialValue,
             IF field.valueType = "digit" \/ field.valueType = "money" THEN Undefined ELSE EmptyString)

ColumnInitialCondition(field, disableConditions) ==
    IF disableConditions THEN "equal" ELSE CoalesceS(field.defaultCondition, "equal")

ColumnType(field) == OrS(field.valueType, "text")

RECURSIVE SeedForm(_, _, _)
SeedForm(form, fields, disableConditions) ==
    IF fields = <<>> THEN form
    ELSE LET field == Head(fields)
             next  == IF Has(form, field.key) THEN form
                      ELSE Put(form, field.key,
                               FieldValue(ColumnInitialValue(field),
                                          ColumnInitialCondition(field, disableConditions),
                                          ColumnType(field)))
         IN  SeedForm(next, Tail(fields), disableConditions)

\* initialForm seeding every field, the caller's entries dropped
initialForm_dropsCaller(p) == SeedForm(<<>>, queryFields, p.disableConditions)

\* the column-based provider's initialForm
initialForm(p) == SeedForm(p.initialQueryForm, queryFields, p.disableConditions)

DefaultOrder(field) == IF field.defaultSortOrder = "ascend" THEN "asc" ELSE "desc"

SortEntry(key, order) == [key |-> key, order |-> order]

\* the column-based provider's initialSortForm
initialSortForm ==
    LET declared == SelectSeq(sortFields, LAMBDA f : f.defaultSortOrder # Absent)
    IN  [i \in 1..Len(declared) |-> SortEntry(declared[i].key, DefaultOrder(declared[i]))]

\* the field-list provider's default FieldValue of a field
FL_DefaultFieldValue(field) ==
    FieldValue(Coalesce(field.defaultValue,
                        IF field.type = "number" THEN Undefined ELSE EmptyString),
               CoalesceS(field.defaultCondition, "equal"),
               Absent)

RECURSIVE FL_SeedForm(_, _)
FL_SeedForm(form, fields) ==
    IF fields = <<>> THEN form
    ELSE LET field == Head(fields)
             next  == IF Has(form, field.key) THEN form
                      ELSE Put(form, field.key, FL_DefaultFieldValue(field))
         IN  FL_SeedForm(next, Tail(fields))

\* the field-list provider's initialForm
FL_initialForm(p) == FL_SeedForm(p.initialQueryForm, FL_queryFields)

\* the field-list provider's initialSortForm
FL_initialSortForm ==
    LET declared == SelectSeq(FL_sortFields, LAMBDA f : f.direction # Absent)
    IN  [i \in 1..Len(declared) |-> SortEntry(declared[i].key, declared[i].direction)]

IsColumnVariant == props.variant = "column"

\* the props a provider can be mounted with; the field-list provider has no
\* autoQuery and no disableConditions prop
\* props.requests: the columns status and price are given a request function
Props ==
    [variant : {"column"}, autoQuery : BOOLEAN, disableConditions : BOOLEAN,
     initialQueryForm : InitialQueryForms, requests : {FALSE}]
    \cup
    [variant : {"fieldlist"}, autoQuery : {FALSE}, disableConditions : {FALSE},
     initialQueryForm : InitialQueryForms, requests : {FALSE}]

\* the keys of the columns that are given a request function
RequestKeys == {"status", "price"}

\* field.request is set
HasRequest(fieldKey) == IsColumnVariant /\ props.requests /\ fieldKey \in RequestKeys

\* Object.keys(field.params || {}): status depends on name, price on nothing
ParamKeys(fieldKey) == IF fieldKey = "status" THEN <<"name">> ELSE <<>>

\* fieldOptions has no entry for the key
NoOptions == [has |-> FALSE, params |-> <<>>]

\* the array field.request(currentParams, {}) resolves with: the request is
\* taken to be a function of its params
Options(currentParams) == [has |-> TRUE, params |-> currentParams]

\* currentDepValues of the params watch effect: queryForm[depKey]?.value per
\* key of field.params
currentDepValues(fieldKey, form) ==
    [i \in 1..Len(ParamKeys(fieldKey)) |->
        [key   |-> ParamKeys(fieldKey)[i],
         value |-> IF Has(form, ParamKeys(fieldKey)[i])
                   THEN Get(form, ParamKeys(fieldKey)[i]).value ELSE Undefined]]

\* the fields of queryFields the params watch effect calls loadOptions for
QueryFieldKeys == {queryFields[i].key : i \in 1..Len(queryFields)}

RequestFieldKeys ==
    IF IsColumnVariant /\ props.requests
    THEN {k \in QueryFieldKeys : HasRequest(k)}
    ELSE {}

\* the state right after the first commit: the useState initial values, and
\* the requests the params watch effect has started
InitialState ==
    /\ queryForm = IF IsColumnVariant THEN initialForm(props) ELSE FL_initialForm(props)
    /\ hasSubmitted = FALSE
    /\ submittedQueryForm = <<>>
    /\ sortForm = IF IsColumnVariant THEN initialSortForm ELSE FL_initialSortForm
    /\ submittedSortForm = IF IsColumnVariant THEN initialSortForm ELSE FL_initialSortForm
    /\ onSubmitCalls = <<>>
    /\ onSubmitRuns = 0
    /\ fieldOptions = [k \in RequestKeys |-> NoOptions]
    /\ loadingRef = [k \in RequestKeys |-> k \in RequestFieldKeys]
    /\ fetches = [k \in RequestKeys |->
                     IF k \in RequestFieldKeys THEN <<currentDepValues(k, queryForm)>>
                     ELSE <<>>]
    /\ overtaken = [k \in RequestKeys |-> 0]
    /\ lastOp = "mount"
    /\ resubmitted = FALSE
    /\ edits = 0
    /\ crashed = FALSE

\* no utility function has been called
NoCall == [fn |-> "none"]

\* the useState initial value of useHttp
HttpInitialState == [data |-> "undefined", loading |-> FALSE, error |-> "undefined"]

\* no utility call is under way and no request was issued through useHttp
Idle ==
    /\ call = NoCall
    /\ state = HttpInitialState
    /\ pending = <<>>

Init == props \in Props /\ InitialState /\ Idle

-----------------------------------------------------------------------------
(* Validity and submit, column-based provider *)

\* v !== undefined && v !== null && v !== ""
NonEmpty(v) == ~IsEmptyScalar(v)

\* value.some((v) => v !== undefined && v !== null && v !== "")
SomeNonEmpty(a) == \E i \in 1..Len(a) : NonEmpty(a[i])

\* value.length === 2 && both slots non-empty
BetweenComplete(a) == Len(a) = 2 /\ NonEmpty(a[1]) /\ NonEmpty(a[2])

\* the isValid closure inside performSubmit
performSubmit_isValid(key, fieldValue) ==
    LET value     == fieldValue.value
        condition == fieldValue.condition
        found     == FindField(queryFields, key)
    IN  IF found = <<>> THEN NonEmpty(value)
        ELSE IF condition = "null" \/ condition = "notNull" THEN TRUE
        ELSE IF IsEmptyScalar(value) THEN FALSE
        ELSE IF found[1].valueType = "textarea" /\ value.k = "string"
             THEN Len(Trim(value.s)) > 0
        ELSE IF value.k = "array"
             THEN IF condition = "between" THEN BetweenComplete(value.a)
                  ELSE SomeNonEmpty(value.a)
        ELSE TRUE

\* { ...fieldValue, type: fieldValue.type || field?.valueType || "text" }
performSubmit_entry(key, fieldValue) ==
    LET found == FindField(queryFields, key)
        fieldType == IF found = <<>> THEN Absent ELSE found[1].valueType
    IN  Entry(key, [fieldValue EXCEPT !.type = OrS(fieldValue.type, OrS(fieldType, "text"))])

\* filteredQuery of performSubmit
filteredQuery(qForm) ==
    LET valid == SelectSeq(qForm, LAMBDA e : performSubmit_isValid(e.key, e.fv))
    IN  [i \in 1..Len(valid) |-> performSubmit_entry(valid[i].key, valid[i].fv)]

\* the arguments of one onSubmit invocation
Payload(query, sort) == [query |-> query, sort |-> sort]

\* the isFieldValueValid helper the column-based store exposes
isFieldValueValid(fieldKey, fieldValue) ==
    LET value     == fieldValue.value
        condition == fieldValue.condition
    IN  IF ~HasField(queryFields, fieldKey) THEN NonEmpty(value)
        ELSE IF condition = "null" \/ condition = "notNull" THEN TRUE
        ELSE IF IsEmptyScalar(value) THEN FALSE
        ELSE IF value.k = "array" THEN Len(value.a) > 0
        ELSE TRUE

-----------------------------------------------------------------------------
(* Validity and submit, field-list provider *)

FL_isFieldValueValid(fieldKey, fieldValue) ==
    LET value     == fieldValue.value
        condition == fieldValue.condition
        found     == FindField(FL_queryFields, fieldKey)
    IN  IF found = <<>>
        THEN IF IsEmptyScalar(value) THEN FALSE
             ELSE IF value.k = "array" THEN Len(value.a) > 0
             ELSE TRUE
        ELSE IF condition = "null" \/ condition = "notNull" THEN TRUE
        ELSE IF IsEmptyScalar(value) THEN FALSE
        ELSE IF found[1].type = "textarea" /\ value.k = "string"
             THEN Len(TextareaLines(value.s)) > 0
        ELSE IF value.k = "array"
             THEN IF condition = "between" THEN BetweenComplete(value.a)
                  ELSE SomeNonEmpty(value.a)
        ELSE TRUE

\* the value submit stores in filteredQuery and pushes to queryItems for one entry
FL_submit_entry(key, fieldValue) ==
    LET found == FindField(FL_queryFields, key)
    IN  IF fieldValue.condition = "null" \/ fieldValue.condition = "notNull"
        THEN Entry(key, FieldValue(Undefined, fieldValue.condition, Absent))
        ELSE IF found # <<>> /\ found[1].type = "textarea" /\ fieldValue.value.k = "string"
             THEN Entry(key, [fieldValue EXCEPT !.value = LinesValue(fieldValue.value.s)])
        ELSE Entry(key, fieldValue)

FL_isRenderField(key) ==
    LET found == FindField(FL_queryFields, key) IN found # <<>> /\ found[1].render

\* filteredQuery / queryItems of the field-list submit
FL_filteredQuery(qForm) ==
    LET valid == SelectSeq(qForm, LAMBDA e : ~FL_isRenderField(e.key)
                                             /\ FL_isFieldValueValid(e.key, e.fv))
    IN  [i \in 1..Len(valid) |-> FL_submit_entry(valid[i].key, valid[i].fv)]

-----------------------------------------------------------------------------
(* Bookkeeping shared by the actions *)

\* a mutator ran: which one, and whether it is a submit() right after a
\* submit(); the utility functions and useHttp have no part in the store
Ran(op) ==
    /\ lastOp' = op
    /\ resubmitted' = (op = "submit" /\ lastOp = "submit")
    /\ UNCHANGED <<call, state, pending>>

\* a live-edit operation ran
Edited == edits' = edits + 1

Mounted == ~crashed

-----------------------------------------------------------------------------
(* Option requests *)

\* loadOptions with no check of loadingRef
loadOptions_unguarded(fieldKey, currentParams) ==
    [loading |-> TRUE, inFlight |-> Append(fetches[fieldKey], currentParams)]

\* loadOptions(field, currentParams) up to its await: what it leaves in
\* loadingRef.current[fieldKey] and the requests of the key then in flight
loadOptions(fieldKey, currentParams) ==
    IF loadingRef[fieldKey]
    THEN [loading |-> loadingRef[fieldKey], inFlight |-> fetches[fieldKey]]
    ELSE [loading |-> TRUE, inFlight |-> Append(fetches[fieldKey], currentParams)]

\* nothing calls loadOptions and no request settles
NoRequest == UNCHANGED <<fieldOptions, loadingRef, fetches, overtaken>>

\* the params watch effect, run after a commit that replaced queryForm by form
watchParams(form) ==
    IF RequestFieldKeys = {} THEN NoRequest
    ELSE /\ loadingRef' = [k \in RequestKeys |->
                              IF k \in RequestFieldKeys
                              THEN loadOptions(k, currentDepValues(k, form)).loading
                              ELSE loadingRef[k]]
         /\ fetches' = [k \in RequestKeys |->
                           IF k \in RequestFieldKeys
                           THEN loadOptions(k, currentDepValues(k, form)).inFlight
                           ELSE fetches[k]]
         /\ UNCHANGED <<fieldOptions, overtaken>>

\* the ways the promise of field.request settles: with an array, with
\* something that is no array, with a rejection
Outcomes == {"requestResolved", "requestResolvedOther", "requestRejected"}

RemoveAt(list, i) == SubSeq(list, 1, i - 1) \o SubSeq(list, i + 1, Len(list))

\* loadOptions whose finally block leaves the flag set after a failure
loadOptions_settles_flagStuck(fieldKey, i, outcome) ==
    /\ Mounted
    /\ i \in 1..Len(fetches[fieldKey])
    /\ fetches' = [fetches EXCEPT ![fieldKey] = RemoveAt(fetches[fieldKey], i)]
    /\ fieldOptions' = IF outcome = "requestResolved"
                       THEN [fieldOptions EXCEPT ![fieldKey] = Options(fetches[fieldKey][i])]
                       ELSE fieldOptions
    /\ loadingRef' = IF outcome = "requestResolved"
                     THEN [loadingRef EXCEPT ![fieldKey] = FALSE]
                     ELSE loadingRef
    /\ overtaken' = [overtaken EXCEPT ![fieldKey] =
                         IF outcome = "requestResolved" /\ i > overtaken[fieldKey] THEN i - 1
                         ELSE IF i <= overtaken[fieldKey] THEN overtaken[fieldKey] - 1
                         ELSE overtaken[fieldKey]]
    /\ onSubmitRuns' = 0
    /\ Ran(outcome)
    /\ UNCHANGED <<props, queryForm, hasSubmitted, submittedQueryForm, sortForm,
                   submittedSortForm, onSubmitCalls, edits, crashed>>

\* loadOptions from its await on: the i-th request in flight for the key
\* settles
loadOptions_settles(fieldKey, i, outcome) ==
    /\ Mounted
    /\ i \in 1..Len(fetches[fieldKey])
    /\ fetches' = [fetches EXCEPT ![fieldKey] = RemoveAt(fetches[fieldKey], i)]
    /\ fieldOptions' = IF outcome = "requestResolved"
                       THEN [fieldOptions EXCEPT ![fieldKey] = Options(fetches[fieldKey][i])]
                       ELSE fieldOptions
    /\ loadingRef' = [loadingRef EXCEPT ![fieldKey] = FALSE]
    /\ overtaken' = [overtaken EXCEPT ![fieldKey] =
                         IF outcome = "requestResolved" /\ i > overtaken[fieldKey] THEN i - 1
                         ELSE IF i <= overtaken[fieldKey] THEN overtaken[fieldKey] - 1
                         ELSE overtaken[fieldKey]]
    /\ onSubmitRuns' = 0
    /\ Ran(outcome)
    /\ UNCHANGED <<props, queryForm, hasSubmitted, submittedQueryForm, sortForm,
                   submittedSortForm, onSubmitCalls, edits, crashed>>

-----------------------------------------------------------------------------
(* submit *)

\* performSubmit storing the filtered query as the snapshot
performSubmit_filteredSnapshot(qForm, sForm) ==
    /\ submittedQueryForm' = filteredQuery(qForm)
    /\ submittedSortForm' = sForm
    /\ hasSubmitted' = TRUE
    /\ onSubmitCalls' = <<Payload(filteredQuery(qForm), sForm)>>
    /\ onSubmitRuns' = 1

\* performSubmit computing the payload from the snapshot it is about to replace
performSubmit_staleQuery(qForm, sForm) ==
    /\ submittedQueryForm' = qForm
    /\ submittedSortForm' = sForm
    /\ hasSubmitted' = TRUE
    /\ onSubmitCalls' = <<Payload(filteredQuery(submittedQueryForm), sForm)>>
    /\ onSubmitRuns' = 1

\* performSubmit(qForm, sForm) of the column-based provider
performSubmit(qForm, sForm) ==
    /\ submittedQueryForm' = qForm
    /\ submittedSortForm' = sForm
    /\ hasSubmitted' = TRUE
    /\ onSubmitCalls' = <<Payload(filteredQuery(qForm), sForm)>>
    /\ onSubmitRuns' = 1

submit ==
    /\ Mounted /\ IsColumnVariant
    /\ performSubmit(queryForm, sortForm)
    /\ Ran("submit") /\ NoRequest
    /\ UNCHANGED <<props, queryForm, sortForm, edits, crashed>>

FL_submit ==
    /\ Mounted /\ ~IsColumnVariant
    /\ submittedQueryForm' = FL_filteredQuery(queryForm)
    /\ submittedSortForm' = sortForm
    /\ hasSubmitted' = TRUE
    /\ onSubmitCalls' = <<Payload(FL_filteredQuery(queryForm), sortForm)>>
    /\ onSubmitRuns' = 1
    /\ Ran("submit") /\ NoRequest
    /\ UNCHANGED <<props, queryForm, sortForm, edits, crashed>>

-----------------------------------------------------------------------------
(* updateFieldValue *)

\* existing = prev[key] || {}
Existing(form, key) ==
    IF Has(form, key) THEN Get(form, key) ELSE FieldValue(Undefined, Absent, Absent)

\* the FieldValue the column-based updateFieldValue writes
updateFieldValue_newValue(prev, key, value, condition, type) ==
    LET existing  == Existing(prev, key)
        found     == FindField(queryFields, key)
        fieldType == IF found = <<>> THEN Absent ELSE found[1].valueType
    IN  FieldValue(
            IF condition # Absent THEN value ELSE Coalesce(PropValue(value), value),
            CoalesceS(condition, CoalesceS(PropCondition(value), CoalesceS(existing.condition, "equal"))),
            CoalesceS(type, CoalesceS(existing.type, CoalesceS(fieldType, "text"))))

\* updateFieldValue writing the snapshot as well
updateFieldValue_writesSnapshot(key, value, condition, type) ==
    /\ Mounted /\ IsColumnVariant
    /\ edits < MaxEdits
    /\ queryForm' = Put(queryForm, key, updateFieldValue_newValue(queryForm, key, value, condition, type))
    /\ submittedQueryForm' = queryForm'
    /\ watchParams(queryForm')
    /\ onSubmitRuns' = 0
    /\ Ran("updateFieldValue") /\ Edited
    /\ UNCHANGED <<props, hasSubmitted, sortForm, submittedSortForm, onSubmitCalls, crashed>>

updateFieldValue(key, value, condition, type) ==
    /\ Mounted /\ IsColumnVariant
    /\ edits < MaxEdits
    /\ queryForm' = Put(queryForm, key, updateFieldValue_newValue(queryForm, key, value, condition, type))
    /\ watchParams(queryForm')
    /\ onSubmitRuns' = 0
    /\ Ran("updateFieldValue") /\ Edited
    /\ UNCHANGED <<props, hasSubmitted, submittedQueryForm, sortForm, submittedSortForm,
                   onSubmitCalls, crashed>>

\* the FieldValue the field-list updateFieldValue writes
FL_updateFieldValue_newValue(valueOrFieldValue, condition) ==
    IF condition # Absent THEN FieldValue(valueOrFieldValue, condition, Absent)
    ELSE IF valueOrFieldValue.k = "object" /\ Len(valueOrFieldValue.a) > 0
            /\ valueOrFieldValue.c # Absent
         THEN FieldValue(valueOrFieldValue.a[1], valueOrFieldValue.c, PropType(valueOrFieldValue))
    ELSE FieldValue(valueOrFieldValue, "equal", Absent)

FL_updateFieldValue(key, valueOrFieldValue, condition) ==
    /\ Mounted /\ ~IsColumnVariant
    /\ edits < MaxEdits
    /\ queryForm' = Put(queryForm, key, FL_updateFieldValue_newValue(valueOrFieldValue, condition))
    /\ onSubmitRuns' = 0
    /\ NoRequest
    /\ Ran("updateFieldValue") /\ Edited
    /\ UNCHANGED <<props, hasSubmitted, submittedQueryForm, sortForm, submittedSortForm,
                   onSubmitCalls, crashed>>

\* the (key, value, condition, type) arguments the model passes to updateFieldValue
UpdateArg(key, value, condition, type) ==
    [key |-> key, value |-> value, condition |-> condition, type |-> type]

UpdateArgs == {
    UpdateArg("name", Str(<<"a">>), "notNull", "text"),
    UpdateArg("name", Str(<<"b">>), Absent, Absent),
    UpdateArg("tags", Str(<<"a", "\n", "\n", "b", " ", "\n">>), "equal", "textarea"),
    UpdateArg("age", Arr(<<Num(18), Num(30)>>), "between", "digit"),
    UpdateArg("age", Num(5), "between", "digit"),
    UpdateArg(GhostKey, Str(<<"x">>), "equal", Absent) }

-----------------------------------------------------------------------------
(* Sort list *)

MaxIndex == 1

\* the indices the model passes to reorderSort; -1 is findIndex's "not found"
Indices == -1..MaxIndex

SortKeys == {"age", "score"}

Orders == {"asc", "desc"}

\* an undefined element of the sort array
UndefinedEntry == SortEntry(Absent, Absent)

IsUndefinedEntry(e) == e = UndefinedEntry

Min(a, b) == IF a < b THEN a ELSE b

Max(a, b) == IF a > b THEN a ELSE b

\* the start index Array.prototype.splice uses for an array of length len
SpliceStart(start, len) == IF start < 0 THEN Max(len + start, 0) ELSE Min(start, len)

\* arrayMove of @dnd-kit/sortable, indices counted from 0:
\*   newArray.splice(to < 0 ? newArray.length + to : to, 0, newArray.splice(from, 1)[0])
\* the first argument is evaluated before the inner splice shortens the array
arrayMove(array, from, to) ==
    LET len    == Len(array)
        target == IF to < 0 THEN len + to ELSE to
        f      == SpliceStart(from, len)
        item   == IF f < len THEN array[f + 1] ELSE UndefinedEntry
        rest   == IF f < len THEN SubSeq(array, 1, f) \o SubSeq(array, f + 2, len) ELSE array
        t      == SpliceStart(target, Len(rest))
    IN  SubSeq(rest, 1, t) \o <<item>> \o SubSeq(rest, t + 1, Len(rest))

HasSort(list, key) == \E i \in 1..Len(list) : ~IsUndefinedEntry(list[i]) /\ list[i].key = key

\* prev.find((s) => s.key === key) reads .key of an undefined element before a match
FindThrows(list, key) ==
    \E i \in 1..Len(list) :
        /\ IsUndefinedEntry(list[i])
        /\ \A j \in 1..(i - 1) : list[j].key # key

\* a callback that reads s.key of every element meets an undefined element
EachThrows(list) == \E i \in 1..Len(list) : IsUndefinedEntry(list[i])

\* order || (field?.defaultSortOrder === "descend" ? "desc" : "asc")
addSort_defaultOrder(key, order) ==
    LET found == FindField(sortFields, key)
    IN  IF order # Absent THEN order
        ELSE IF found # <<>> /\ found[1].defaultSortOrder = "descend" THEN "desc" ELSE "asc"

\* field?.direction || "asc"
FL_addSort_defaultOrder(key) ==
    LET found == FindField(FL_sortFields, key)
    IN  IF found # <<>> /\ found[1].direction # Absent THEN found[1].direction ELSE "asc"

DefaultOrderOf(key) ==
    IF IsColumnVariant THEN addSort_defaultOrder(key, Absent) ELSE FL_addSort_defaultOrder(key)

Flip(order) == IF order = "asc" THEN "desc" ELSE "asc"

\* the updater throws: the state is not replaced and the tree unmounts
Throws ==
    /\ crashed' = TRUE
    /\ UNCHANGED <<sortForm, submittedSortForm>>

SortFrame ==
    /\ UNCHANGED <<props, queryForm, hasSubmitted, submittedQueryForm, onSubmitCalls>>
    /\ onSubmitRuns' = 0
    /\ NoRequest

\* addSort appending without looking for an existing entry
addSort_noLookup(key, order) ==
    /\ Mounted /\ edits < MaxEdits
    /\ order # Absent => IsColumnVariant
    /\ sortForm' = Append(sortForm, SortEntry(key,
                        IF IsColumnVariant THEN addSort_defaultOrder(key, order)
                        ELSE FL_addSort_defaultOrder(key)))
    /\ UNCHANGED <<submittedSortForm, crashed>>
    /\ Ran("addSort") /\ Edited /\ SortFrame

\* addSort putting the new entry first
addSort_prepends(key, order) ==
    /\ Mounted /\ edits < MaxEdits
    /\ order # Absent => IsColumnVariant
    /\ IF FindThrows(sortForm, key) THEN Throws
       ELSE /\ sortForm' = IF HasSort(sortForm, key) THEN sortForm
                           ELSE <<SortEntry(key,
                                    IF IsColumnVariant THEN addSort_defaultOrder(key, order)
                                    ELSE FL_addSort_defaultOrder(key))>> \o sortForm
            /\ UNCHANGED <<submittedSortForm, crashed>>
    /\ Ran("addSort") /\ Edited /\ SortFrame

\* addSort appending the descriptor's direction whatever order is passed
addSort_ignoresOrder(key, order) ==
    /\ Mounted /\ edits < MaxEdits
    /\ order # Absent => IsColumnVariant
    /\ IF FindThrows(sortForm, key) THEN Throws
       ELSE /\ sortForm' = IF HasSort(sortForm, key) THEN sortForm
                           ELSE Append(sortForm, SortEntry(key, DefaultOrderOf(key)))
            /\ UNCHANGED <<submittedSortForm, crashed>>
    /\ Ran("addSort") /\ Edited /\ SortFrame

\* addSort(key, order); the field-list addSort takes the key only
addSort(key, order) ==
    /\ Mounted /\ edits < MaxEdits
    /\ order # Absent => IsColumnVariant
    /\ IF FindThrows(sortForm, key) THEN Throws
       ELSE /\ sortForm' = IF HasSort(sortForm, key) THEN sortForm
                           ELSE Append(sortForm, SortEntry(key,
                                    IF IsColumnVariant THEN addSort_defaultOrder(key, order)
                                    ELSE FL_addSort_defaultOrder(key)))
            /\ UNCHANGED <<submittedSortForm, crashed>>
    /\ Ran("addSort") /\ Edited /\ SortFrame

RemoveKey(list, key) == SelectSeq(list, LAMBDA e : e.key # key)

\* removeSort(key) of the column-based provider; a removal adds nothing to
\* the forms, so whether it counts against the edit budget is left to Next
removeSort(key) ==
    /\ Mounted /\ IsColumnVariant
    /\ IF EachThrows(sortForm) THEN Throws
       ELSE /\ sortForm' = RemoveKey(sortForm, key)
            /\ UNCHANGED <<submittedSortForm, crashed>>
    /\ Ran("removeSort") /\ SortFrame

\* removeSort(key) of the field-list provider
FL_removeSort(key) ==
    /\ Mounted /\ ~IsColumnVariant
    /\ IF EachThrows(sortForm) \/ EachThrows(submittedSortForm) THEN Throws
       ELSE /\ sortForm' = RemoveKey(sortForm, key)
            /\ submittedSortForm' = RemoveKey(submittedSortForm, key)
            /\ UNCHANGED crashed
    /\ Ran("removeSort") /\ SortFrame

updateSort(key, order) ==
    /\ Mounted /\ edits < MaxEdits
    /\ IF EachThrows(sortForm) THEN Throws
       ELSE /\ sortForm' = [i \in 1..Len(sortForm) |->
                               IF sortForm[i].key = key THEN SortEntry(key, order) ELSE sortForm[i]]
            /\ UNCHANGED <<submittedSortForm, crashed>>
    /\ Ran("updateSort") /\ Edited /\ SortFrame

reorderSort(oldIndex, newIndex) ==
    /\ Mounted /\ edits < MaxEdits
    /\ sortForm' = arrayMove(sortForm, oldIndex, newIndex)
    /\ UNCHANGED <<submittedSortForm, crashed>>
    /\ Ran("reorderSort") /\ Edited /\ SortFrame

\* toggleSort flipping every entry of the list
toggleSort_flipsAll(key) ==
    /\ Mounted /\ edits < MaxEdits
    /\ IF FindThrows(sortForm, key) \/ (HasSort(sortForm, key) /\ EachThrows(sortForm))
       THEN Throws
       ELSE /\ sortForm' =
                 IF HasSort(sortForm, key)
                 THEN [i \in 1..Len(sortForm) |->
                          SortEntry(sortForm[i].key, Flip(sortForm[i].order))]
                 ELSE Append(sortForm, SortEntry(key, DefaultOrderOf(key)))
            /\ UNCHANGED <<submittedSortForm, crashed>>
    /\ Ran("toggleSort") /\ Edited /\ SortFrame

toggleSort(key) ==
    /\ Mounted /\ edits < MaxEdits
    /\ IF FindThrows(sortForm, key) \/ (HasSort(sortForm, key) /\ EachThrows(sortForm))
       THEN Throws
       ELSE /\ sortForm' =
                 IF HasSort(sortForm, key)
                 THEN [i \in 1..Len(sortForm) |->
                          IF sortForm[i].key = key
                          THEN SortEntry(key, Flip(sortForm[i].order)) ELSE sortForm[i]]
                 ELSE Append(sortForm, SortEntry(key, DefaultOrderOf(key)))
            /\ UNCHANGED <<submittedSortForm, crashed>>
    /\ Ran("toggleSort") /\ Edited /\ SortFrame

-----------------------------------------------------------------------------
(* Resets *)

\* resetValue of the column-based resetFieldValue
resetFieldValue_resetValue(field) ==
    FieldValue(Coalesce(field.initialValue,
                        IF field.valueType = "digit" THEN Undefined ELSE EmptyString),
               CoalesceS(field.defaultCondition, "equal"),
               OrS(field.valueType, "text"))

\* resetFieldValue deleting the live entry instead of rewriting it
resetFieldValue_deletes(key) ==
    /\ Mounted /\ IsColumnVariant
    /\ queryForm' = Delete(queryForm, key)
    /\ watchParams(queryForm')
    /\ onSubmitRuns' = 0
    /\ Ran("resetFieldValue")
    /\ UNCHANGED <<props, hasSubmitted, submittedQueryForm, sortForm, submittedSortForm,
                   onSubmitCalls, edits, crashed>>

resetFieldValue(key) ==
    /\ Mounted /\ IsColumnVariant
    /\ LET found == FindField(queryFields, key)
       IN  IF found # <<>>
           THEN /\ queryForm' = Put(queryForm, key, resetFieldValue_resetValue(found[1]))
                /\ watchParams(queryForm')
           ELSE UNCHANGED queryForm /\ NoRequest
    /\ onSubmitRuns' = 0
    /\ Ran("resetFieldValue")
    /\ UNCHANGED <<props, hasSubmitted, submittedQueryForm, sortForm, submittedSortForm,
                   onSubmitCalls, edits, crashed>>

FL_resetFieldValue(key) ==
    /\ Mounted /\ ~IsColumnVariant
    /\ LET found == FindField(FL_queryFields, key)
       IN  IF found # <<>>
           THEN /\ queryForm' = Put(queryForm, key, FL_DefaultFieldValue(found[1]))
                /\ submittedQueryForm' = Delete(submittedQueryForm, key)
                /\ hasSubmitted' = IF Delete(submittedQueryForm, key) = <<>> THEN FALSE
                                   ELSE hasSubmitted
           ELSE UNCHANGED <<queryForm, submittedQueryForm, hasSubmitted>>
    /\ onSubmitRuns' = 0
    /\ NoRequest
    /\ Ran("resetFieldValue")
    /\ UNCHANGED <<props, sortForm, submittedSortForm, onSubmitCalls, edits, crashed>>

\* resetAll submitting the live forms as they were before the reset
resetAll_submitsLive ==
    /\ Mounted /\ IsColumnVariant
    /\ queryForm' = initialForm(props)
    /\ sortForm' = initialSortForm
    /\ IF props.autoQuery
       THEN performSubmit(queryForm, sortForm)
       ELSE /\ hasSubmitted' = FALSE
            /\ onSubmitRuns' = 0
            /\ UNCHANGED <<submittedQueryForm, submittedSortForm, onSubmitCalls>>
    /\ IF queryForm = initialForm(props) THEN NoRequest ELSE watchParams(queryForm')
    /\ Ran("resetAll")
    /\ UNCHANGED <<props, edits, crashed>>

resetAll ==
    /\ Mounted /\ IsColumnVariant
    /\ queryForm' = initialForm(props)
    /\ sortForm' = initialSortForm
    /\ IF props.autoQuery
       THEN performSubmit(initialForm(props), initialSortForm)
       ELSE /\ hasSubmitted' = FALSE
            /\ onSubmitRuns' = 0
            /\ UNCHANGED <<submittedQueryForm, submittedSortForm, onSubmitCalls>>
    \* the params watch effect runs when the form object was replaced; a
    \* form that already has the initial values is taken to be initialForm
    /\ IF queryForm = initialForm(props) THEN NoRequest ELSE watchParams(queryForm')
    /\ Ran("resetAll")
    /\ UNCHANGED <<props, edits, crashed>>

\* the form the field-list resetAll builds
FL_resetAll_form ==
    [i \in 1..Len(FL_queryFields) |->
        Entry(FL_queryFields[i].key, FL_DefaultFieldValue(FL_queryFields[i]))]

FL_resetAll ==
    /\ Mounted /\ ~IsColumnVariant
    /\ queryForm' = FL_resetAll_form
    /\ sortForm' = <<>>
    /\ hasSubmitted' = FALSE
    /\ submittedQueryForm' = <<>>
    /\ submittedSortForm' = <<>>
    /\ onSubmitRuns' = 0
    /\ NoRequest
    /\ Ran("resetAll")
    /\ UNCHANGED <<props, onSubmitCalls, edits, crashed>>

-----------------------------------------------------------------------------
(* The condition catalog *)

\* DEFAULT_CONDITIONS[fieldType]: the condition values in catalog order, <<>>
\* for a type the catalog has no entry for
DEFAULT_CONDITIONS(fieldType) ==
    CASE fieldType \in {"input", "text"} ->
             <<"equal", "notEqual", "include", "exclude", "null", "notNull">>
      [] fieldType \in {"number", "digit", "money", "date", "dateTime"} ->
             <<"equal", "notEqual", "greaterThan", "lessThan", "between", "null", "notNull">>
      [] fieldType = "textarea" -> <<"equal", "exclude">>
      [] fieldType = "select" ->
             <<"equal", "notEqual", "in", "notIn", "null", "notNull">>
      [] fieldType \in {"cascader", "cascade"} -> <<"equal", "notEqual", "include">>
      [] OTHER -> <<>>

\* the optional customConditions argument
NoCustomConditions == [given |-> FALSE, list |-> <<>>]

CustomConditions(list) == [given |-> TRUE, list |-> list]

\* getFieldConditions(fieldType, customConditions)
getFieldConditions(fieldType, customConditions) ==
    IF customConditions.given
    THEN SelectSeq(DEFAULT_CONDITIONS(fieldType),
                   LAMBDA c : \E i \in 1..Len(customConditions.list) : customConditions.list[i] = c)
    ELSE IF DEFAULT_CONDITIONS(fieldType) # <<>> THEN DEFAULT_CONDITIONS(fieldType)
    ELSE DEFAULT_CONDITIONS("input")

-----------------------------------------------------------------------------
(* useSearchField over the column-based store: field is a column *)

\* getFieldValue(fieldKey): the live FieldValue, all slots undefined when the
\* form has no entry
getFieldValue(key) ==
    IF Has(queryForm, key) THEN Get(queryForm, key) ELSE FieldValue(Undefined, Absent, Absent)

\* valueType = field.valueType || "text"
useSearchField_valueType(field) == OrS(field.valueType, "text")

\* value = fieldValue?.value ?? field.initialValue ?? ""
useSearchField_value(field) ==
    Coalesce(getFieldValue(field.key).value, Coalesce(field.initialValue, EmptyString))

\* condition = fieldValue?.condition ?? field.fieldProps?.defaultCondition ?? "equal"
useSearchField_condition(field) ==
    CoalesceS(getFieldValue(field.key).condition, CoalesceS(field.defaultCondition, "equal"))

\* value.split("\n").some((line) => line.trim().length > 0)
SomeLineNonBlank(s) ==
    LET pieces == SplitLines(s, <<>>)
    IN  \E i \in 1..Len(pieces) : Len(Trim(pieces[i])) > 0

\* the isValid memo of the hook on (valueType, value, condition)
isValid_of(valueType, value, condition) ==
    IF condition = "null" \/ condition = "notNull" THEN TRUE
    ELSE IF valueType = "textarea" /\ value.k = "string" THEN SomeLineNonBlank(value.s)
    ELSE IF value.k = "array"
         THEN IF condition = "between" THEN BetweenComplete(value.a)
              ELSE Len(value.a) > 0
    ELSE NonEmpty(value)

isValid(field) ==
    isValid_of(useSearchField_valueType(field), useSearchField_value(field),
               useSearchField_condition(field))

\* setValue(newValue)
setValue(field, newValue) ==
    updateFieldValue(field.key, newValue, useSearchField_condition(field),
                     useSearchField_valueType(field))

\* Array.isArray(value) && value.length > 0 ? value[0] : (initial ?? "")
FirstOr(value, initial) ==
    IF value.k = "array" /\ Len(value.a) > 0 THEN value.a[1] ELSE Coalesce(initial, EmptyString)

\* value !== "" && value !== null && value !== undefined ? value : undefined
FillValue(value) == IF NonEmpty(value) THEN value ELSE Undefined

\* newValue of setCondition for a condition other than null / notNull:
\* numericKind is the type that resets to undefined, rangeKinds the types
\* whose value converts to and from a [from, to] pair
setCondition_convert(valueType, initial, value, condition, newCondition, numericKind, rangeKinds) ==
    LET isOldNull     == condition = "null" \/ condition = "notNull"
        start         == IF isOldNull
                         THEN Coalesce(initial, IF valueType = numericKind THEN Undefined
                                                ELSE EmptyString)
                         ELSE value
        isNewMultiple == newCondition = "in" \/ newCondition = "notIn"
        isOldMultiple == condition = "in" \/ condition = "notIn"
        isNewBetween  == newCondition = "between"
        isOldBetween  == condition = "between"
    IN  IF valueType = "select"
        THEN IF isNewMultiple /\ ~isOldMultiple
             THEN IF NonEmpty(value) THEN Arr(<<value>>) ELSE Arr(<<>>)
             ELSE IF ~isNewMultiple /\ isOldMultiple THEN FirstOr(value, initial)
             ELSE start
        ELSE IF valueType \in rangeKinds
        THEN IF isNewBetween /\ ~isOldBetween
             THEN Arr(<<FillValue(value), FillValue(value)>>)
             ELSE IF ~isNewBetween /\ isOldBetween THEN FirstOr(value, initial)
             ELSE start
        ELSE start

\* the newValue the column hook's setCondition computes
setCondition_newValue(field, newCondition) ==
    setCondition_convert(useSearchField_valueType(field), field.initialValue,
                         useSearchField_value(field), useSearchField_condition(field),
                         newCondition, "digit", {"digit", "date"})

\* setCondition(newCondition)
setCondition(field, newCondition) ==
    IF newCondition = "null" \/ newCondition = "notNull"
    THEN updateFieldValue(field.key, Undefined, newCondition, useSearchField_valueType(field))
    ELSE updateFieldValue(field.key, setCondition_newValue(field, newCondition), newCondition,
                          useSearchField_valueType(field))

-----------------------------------------------------------------------------
(* useSearchField over the field-list store: field is a SearchFieldConfig *)

\* value = fieldValue?.value ?? field.defaultValue ?? ""
FL_useSearchField_value(field) ==
    Coalesce(getFieldValue(field.key).value, Coalesce(field.defaultValue, EmptyString))

\* condition = fieldValue?.condition ?? field.defaultCondition ?? "equal"
FL_useSearchField_condition(field) ==
    CoalesceS(getFieldValue(field.key).condition, CoalesceS(field.defaultCondition, "equal"))

\* the isValid memo of the field-list hook
FL_isValid(field) ==
    LET value     == FL_useSearchField_value(field)
        condition == FL_useSearchField_condition(field)
    IN  IF condition = "null" \/ condition = "notNull" THEN TRUE
        ELSE IF field.type = "textarea" /\ value.k = "string"
             THEN Len(TextareaLines(value.s)) > 0
        ELSE IF value.k = "array"
             THEN IF condition = "between" THEN BetweenComplete(value.a)
                  ELSE Len(value.a) > 0
        ELSE NonEmpty(value)

FL_setValue(field, newValue) ==
    FL_updateFieldValue(field.key,
                        ObjT(newValue, FL_useSearchField_condition(field), field.type), Absent)

FL_setCondition_newValue(field, newCondition) ==
    setCondition_convert(field.type, field.defaultValue, FL_useSearchField_value(field),
                         FL_useSearchField_condition(field), newCondition,
                         "number", {"number", "date"})

FL_setCondition(field, newCondition) ==
    IF newCondition = "null" \/ newCondition = "notNull"
    THEN FL_updateFieldValue(field.key, ObjT(Undefined, newCondition, field.type), Absent)
    ELSE FL_updateFieldValue(field.key,
                             ObjT(FL_setCondition_newValue(field, newCondition), newCondition,
                                  field.type), Absent)

-----------------------------------------------------------------------------
(* The store *)

ResetKeys == {"name", "tags", GhostKey}

Next ==
    \/ submit
    \/ FL_submit
    \/ \E u \in UpdateArgs : updateFieldValue(u.key, u.value, u.condition, u.type)
    \/ \E u \in UpdateArgs : FL_updateFieldValue(u.key, u.value, u.condition)
    \/ \E key \in SortKeys, order \in {Absent, "desc"} : addSort(key, order)
    \/ \E key \in SortKeys : removeSort(key) /\ edits < MaxEdits /\ Edited
    \/ \E key \in SortKeys : FL_removeSort(key) /\ edits < MaxEdits /\ Edited
    \/ \E key \in SortKeys, order \in Orders : updateSort(key, order)
    \/ \E oldIndex \in Indices, newIndex \in Indices : reorderSort(oldIndex, newIndex)
    \/ \E key \in SortKeys : toggleSort(key)
    \/ \E key \in ResetKeys : resetFieldValue(key)
    \/ \E key \in ResetKeys : FL_resetFieldValue(key)
    \/ resetAll
    \/ FL_resetAll

Spec == Init /\ [][Next]_vars

-----------------------------------------------------------------------------
(* The search items: one useSearchField per declared field, over the store *)

\* the values the model's inputs hand to setValue, by value type
SampleValues(valueType) ==
    CASE valueType \in {"text", "input"} -> {Str(<<"a">>)}
      [] valueType = "textarea" -> {Str(<<" ", "\n">>), Str(<<"a", "\n", "\n", "b", " ", "\n">>)}
      [] valueType \in {"digit", "number"} -> {Num(5), Arr(<<Num(18), Num(30)>>)}
      [] valueType = "money" -> {Num(5)}
      [] valueType = "select" -> {Str(<<"a">>), Arr(<<EmptyString>>), Arr(<<Undefined>>)}
      [] valueType \in {"date", "dateTime"} -> {Str(<<"d">>)}
      [] OTHER -> {}

\* the conditions the model picks in a condition dropdown
SampleConditions == {"equal", "in", "between", "null"}

\* the conditions a field's dropdown offers, cut down to the sampled ones
OfferedConditions(valueType) ==
    LET offered == getFieldConditions(valueType, NoCustomConditions)
    IN  {offered[i] : i \in 1..Len(offered)} \cap SampleConditions

\* direct updateFieldValue calls in each of the three call shapes
FieldUpdateArgs == {
    UpdateArg("name", Str(<<"a">>), "exclude", Absent),
    UpdateArg("name", Obj(Str(<<"b">>), "include"), Absent, Absent),
    UpdateArg("name", Obj(Undefined, "include"), Absent, Absent),
    UpdateArg("age", Num(7), Absent, Absent),
    UpdateArg(GhostKey, Arr(<<>>), "equal", Absent),
    UpdateArg(GhostKey, Str(<<"x">>), "equal", Absent) }

FieldInit ==
    /\ Init
    /\ ~props.autoQuery /\ ~props.disableConditions /\ props.initialQueryForm = <<>>

FieldNext ==
    \/ submit
    \/ FL_submit
    \/ \E i \in 1..Len(queryFields) :
           \E newValue \in SampleValues(useSearchField_valueType(queryFields[i])) :
               setValue(queryFields[i], newValue)
    \/ \E i \in 1..Len(queryFields) :
           \E newCondition \in OfferedConditions(useSearchField_valueType(queryFields[i])) :
               setCondition(queryFields[i], newCondition)
    \/ \E i \in 1..Len(FL_queryFields) :
           \E newValue \in SampleValues(FL_queryFields[i].type) :
               FL_setValue(FL_queryFields[i], newValue)
    \/ \E i \in 1..Len(FL_queryFields) :
           \E newCondition \in OfferedConditions(FL_queryFields[i].type) :
               FL_setCondition(FL_queryFields[i], newCondition)
    \/ \E u \in FieldUpdateArgs : updateFieldValue(u.key, u.value, u.condition, u.type)
    \/ \E u \in FieldUpdateArgs : FL_updateFieldValue(u.key, u.value, u.condition)

FieldSpec == FieldInit /\ [][FieldNext]_vars

-----------------------------------------------------------------------------
(* The tiled select of SearchItem: the options of a select field as tags *)

\* indexOf / splice / push: val taken out of the array when present, added
\* at the end otherwise
Toggled(a, val) ==
    IF \E i \in 1..Len(a) : a[i] = val
    THEN LET index == CHOOSE i \in 1..Len(a) : a[i] = val /\ \A j \in 1..(i - 1) : a[j] # val
         IN  SubSeq(a, 1, index - 1) \o SubSeq(a, index + 1, Len(a))
    ELSE Append(a, val)

\* the newValue handleSelect hands to setValue
handleSelect_newValue(currentValue, isMultiple, val) ==
    IF isMultiple
    THEN Arr(Toggled(IF currentValue.k = "array" THEN currentValue.a ELSE <<>>, val))
    ELSE IF currentValue = val THEN Undefined ELSE val

\* handleSelect(val) of renderTiledSelect: setValue and setCondition are the
\* callbacks of the render the click happened in, so both read that render's
\* value and condition; their two state updaters run one after the other
handleSelect(field, isMultiple, val) ==
    LET valueType == useSearchField_valueType(field)
        condition == useSearchField_condition(field)
        newValue  == handleSelect_newValue(useSearchField_value(field), isMultiple, val)
        forced    == IF isMultiple THEN "in" ELSE "equal"
        kept      == IF isMultiple THEN {"in", "notIn"} ELSE {"equal", "notEqual"}
        afterSetValue ==
            Put(queryForm, field.key,
                updateFieldValue_newValue(queryForm, field.key, newValue, condition, valueType))
        afterSetCondition ==
            Put(afterSetValue, field.key,
                updateFieldValue_newValue(afterSetValue, field.key,
                                          setCondition_newValue(field, forced), forced, valueType))
    IN  /\ Mounted /\ IsColumnVariant
        /\ edits < MaxEdits
        /\ queryForm' = IF condition \in kept THEN afterSetValue ELSE afterSetCondition
        /\ watchParams(queryForm')
        /\ onSubmitRuns' = 0
        /\ Ran("handleSelect") /\ Edited
        /\ UNCHANGED <<props, hasSubmitted, submittedQueryForm, sortForm, submittedSortForm,
                       onSubmitCalls, crashed>>

\* the option values of the tiled select
SelectOptions == {Str(<<"a">>), Str(<<"o">>)}

TiledNext ==
    \/ FieldNext
    \/ \E i \in 1..Len(queryFields), isMultiple \in BOOLEAN, val \in SelectOptions :
           /\ useSearchField_valueType(queryFields[i]) = "select"
           /\ handleSelect(queryFields[i], isMultiple, val)

TiledSpec == FieldInit /\ [][TiledNext]_vars

-----------------------------------------------------------------------------
(* The search items of the column-based provider with the clear button of   *)
(* each field: no initial form from the caller, conditions enabled          *)

RestoreProps ==
    [variant : {"column"}, autoQuery : {FALSE}, disableConditions : {FALSE},
     initialQueryForm : {<<>>}, requests : {FALSE}]

RestoreInit == props \in RestoreProps /\ InitialState /\ Idle

RestoreNext ==
    \/ \E i \in 1..Len(queryFields) :
           \E newValue \in SampleValues(useSearchField_valueType(queryFields[i])) :
               setValue(queryFields[i], newValue)
    \/ \E i \in 1..Len(queryFields) :
           \E newCondition \in OfferedConditions(useSearchField_valueType(queryFields[i])) :
               setCondition(queryFields[i], newCondition)
    \/ \E key \in QueryFieldKeys \cup {GhostKey} : resetFieldValue(key)

RestoreSpec == RestoreInit /\ [][RestoreNext]_vars

-----------------------------------------------------------------------------
(* The sort popover and the sort tags: the sort mutators and submit *)

SortInit ==
    /\ Init
    /\ ~props.autoQuery /\ ~props.disableConditions /\ props.initialQueryForm = <<>>

SortNext ==
    \/ submit
    \/ FL_submit
    \/ \E key \in SortKeys, order \in {Absent, "desc"} : addSort(key, order)
    \/ \E key \in SortKeys : removeSort(key) /\ UNCHANGED edits
    \/ \E key \in SortKeys : FL_removeSort(key) /\ UNCHANGED edits
    \/ \E key \in SortKeys, order \in Orders : updateSort(key, order)
    \/ \E oldIndex \in Indices, newIndex \in Indices : reorderSort(oldIndex, newIndex)
    \/ \E key \in SortKeys : toggleSort(key)

SortSpec == SortInit /\ [][SortNext]_vars

-----------------------------------------------------------------------------
(* The resets: the tags of the toolbar (resetFieldValue), the reset button  *)
(* (resetAll), over forms edited and submitted before                       *)

\* the keys of the tags closed
TagKeys == {"name", "age", "status", GhostKey}

ResetNext ==
    \/ submit
    \/ FL_submit
    \/ \E u \in UpdateArgs : updateFieldValue(u.key, u.value, u.condition, u.type)
    \/ \E u \in UpdateArgs : FL_updateFieldValue(u.key, u.value, u.condition)
    \/ \E key \in SortKeys : toggleSort(key)
    \/ \E key \in TagKeys : resetFieldValue(key)
    \/ \E key \in TagKeys : FL_resetFieldValue(key)
    \/ resetAll
    \/ FL_resetAll

ResetSpec == Init /\ [][ResetNext]_vars

-----------------------------------------------------------------------------
(* The option requests of the column-based provider: the columns status    *)
(* and price carry a request function, status with params {name}            *)

RequestProps ==
    [variant : {"column"}, autoQuery : {FALSE}, disableConditions : {FALSE},
     initialQueryForm : {<<>>}, requests : {TRUE}]

LoaderInit == props \in RequestProps /\ InitialState /\ Idle

LoaderNext ==
    \/ \E u \in UpdateArgs : updateFieldValue(u.key, u.value, u.condition, u.type)
    \/ \E key \in ResetKeys : resetFieldValue(key)
    \/ \E fieldKey \in RequestKeys, outcome \in Outcomes :
           \E i \in 1..Len(fetches[fieldKey]) : loadOptions_settles(fieldKey, i, outcome)

LoaderSpec == LoaderInit /\ [][LoaderNext]_vars

-----------------------------------------------------------------------------
(* The utility functions, called on their own: a call starts with its        *)
(* arguments and returns its result                                          *)

\* the variables of the store
storeVars == <<props, queryForm, hasSubmitted, submittedQueryForm, sortForm,
               submittedSortForm, onSubmitCalls, onSubmitRuns, fieldOptions, loadingRef,
               fetches, overtaken, lastOp, resubmitted, edits, crashed>>

\* a provider the utility functions are called beside
UtilityProps ==
    [variant |-> "column", autoQuery |-> FALSE, disableConditions |-> FALSE,
     initialQueryForm |-> <<>>, requests |-> FALSE]

\* the call returns
Returns(result) ==
    /\ ~call.returned
    /\ call' = [call EXCEPT !.returned = TRUE, !.result = result]
    /\ UNCHANGED <<storeVars, state, pending>>

\* the field types getFieldConditions is called with: registered ones and
\* two the catalog has no entry for
FieldTypes == {"text", "input", "textarea", "digit", "money", "select", "date",
               "cascader", "rate", "switch"}

\* the customConditions arguments: none, and lists in and out of catalog order
CustomConditionLists == {
    NoCustomConditions,
    CustomConditions(<<>>),
    CustomConditions(<<"equal", "include">>),
    CustomConditions(<<"include", "equal">>),
    CustomConditions(<<"notNull", "between", "equal">>),
    CustomConditions(<<"in", "exclude">>) }

CatalogInit ==
    /\ props = UtilityProps /\ InitialState
    /\ state = HttpInitialState /\ pending = <<>>
    /\ \E fieldType \in FieldTypes, customConditions \in CustomConditionLists :
           call = [fn |-> "getFieldConditions", fieldType |-> fieldType,
                   customConditions |-> customConditions, returned |-> FALSE, result |-> <<>>]

getFieldConditions_returns ==
    /\ call.fn = "getFieldConditions"
    /\ Returns(getFieldConditions(call.fieldType, call.customConditions))

CatalogNext == getFieldConditions_returns

CatalogSpec == CatalogInit /\ [][CatalogNext]_vars

-----------------------------------------------------------------------------
(* deepMerge (utils/merge.ts).  A value is a record of one shape: kind is    *)
(* the typeof / Array.isArray / null tag, n tells values of one kind apart   *)
(* (0 is the number 0 and the empty string), fields holds the own enumerable *)
(* properties of an object as [key, val] in insertion order.                 *)

MValue(kind, n) == [kind |-> kind, n |-> n, fields |-> <<>>]

MObject(fields) == [kind |-> "object", n |-> 0, fields |-> fields]

MField(key, val) == [key |-> key, val |-> val]

MUndefined == MValue("undefined", 0)

MNull == MValue("null", 0)

\* !!value
MTruthy(value) ==
    CASE value.kind \in {"undefined", "null"} -> FALSE
      [] value.kind \in {"number", "string"} -> value.n # 0
      [] OTHER -> TRUE

\* value && typeof value === "object" && !Array.isArray(value)
MIsObject(value) == MTruthy(value) /\ value.kind = "object"

MHas(fields, key) == \E i \in 1..Len(fields) : fields[i].key = key

\* object[key]: undefined when the object has no such property
MGet(fields, key) ==
    IF MHas(fields, key)
    THEN fields[CHOOSE i \in 1..Len(fields) : fields[i].key = key].val
    ELSE MUndefined

\* object[key] = val: in place for an own property, appended otherwise
MSet(fields, key, val) ==
    IF MHas(fields, key)
    THEN [i \in 1..Len(fields) |-> IF fields[i].key = key THEN MField(key, val) ELSE fields[i]]
    ELSE Append(fields, MField(key, val))

\* deepMerge replacing every key of source, nested objects included
RECURSIVE deepMerge_shallow(_, _)
deepMerge_shallow(target, source) ==
    IF ~MTruthy(source) THEN target
    ELSE LET RECURSIVE assign(_, _)
             assign(result, rest) ==
                 IF rest = <<>> THEN result
                 ELSE assign(MSet(result, Head(rest).key, Head(rest).val), Tail(rest))
         IN  MObject(assign(target.fields, source.fields))

RECURSIVE deepMerge(_, _)
deepMerge(target, source) ==
    IF ~MTruthy(source) THEN target
    ELSE LET RECURSIVE forIn(_, _)
             forIn(result, rest) ==
                 IF rest = <<>> THEN result
                 ELSE LET key         == Head(rest).key
                          sourceValue == Head(rest).val
                          targetValue == MGet(result, key)
                      IN  forIn(MSet(result, key,
                                     IF MIsObject(sourceValue) /\ MIsObject(targetValue)
                                     THEN deepMerge(targetValue, sourceValue)
                                     ELSE sourceValue),
                                Tail(rest))
         IN  MObject(forIn(target.fields, source.fields))

\* the values of the properties below the top level
MergeLeaves == {MValue("number", 1), MValue("array", 1), MNull}

\* the objects whose properties, taken in the order of keys, have values in
\* values or are absent
RECURSIVE ObjectsOver(_, _)
ObjectsOver(keys, values) ==
    IF keys = <<>> THEN {MObject(<<>>)}
    ELSE LET rest == ObjectsOver(Tail(keys), values)
         IN  rest \cup {MObject(<<MField(Head(keys), v)>> \o o.fields) : v \in values, o \in rest}

MergeInner == ObjectsOver(<<"c", "d">>, {MValue("number", 2), MValue("array", 2)})

\* the objects deepMerge is called with
MergeObjects == ObjectsOver(<<"a", "b">>, MergeLeaves \cup MergeInner)

MergeInit ==
    /\ props = UtilityProps /\ InitialState
    /\ state = HttpInitialState /\ pending = <<>>
    /\ \E target \in MergeObjects, source \in MergeObjects \cup {MNull, MUndefined} :
           call = [fn |-> "deepMerge", target |-> target, source |-> source,
                   returned |-> FALSE, result |-> MUndefined]

deepMerge_returns ==
    /\ call.fn = "deepMerge"
    /\ Returns(deepMerge(call.target, call.source))

MergeNext == deepMerge_returns

MergeSpec == MergeInit /\ [][MergeNext]_vars

-----------------------------------------------------------------------------
(* The displayValue memo of useSearchField, and the mask text of SearchItem *)

\* !value
Falsy(v) ==
    \/ IsNullish(v)
    \/ v = EmptyString
    \/ v.k \in {"number", "boolean"} /\ v.n = 0

\* the decimal digits of a natural number
RECURSIVE Digits(_)
Digits(n) ==
    IF n < 10 THEN <<(<<"0", "1", "2", "3", "4", "5", "6", "7", "8", "9">>)[n + 1]>>
    ELSE Digits(n \div 10) \o Digits(n % 10)

\* separator-joined pieces
RECURSIVE Join(_, _)
Join(pieces, separator) ==
    IF pieces = <<>> THEN <<>>
    ELSE IF Len(pieces) = 1 THEN pieces[1]
    ELSE pieces[1] \o separator \o Join(Tail(pieces), separator)

\* String(value), and the conversion inside `${value}`
RECURSIVE JsString(_)
JsString(v) ==
    CASE v.k = "undefined" -> <<"u", "n", "d", "e", "f", "i", "n", "e", "d">>
      [] v.k = "null" -> <<"n", "u", "l", "l">>
      [] v.k = "string" -> v.s
      [] v.k = "number" -> IF v.n < 0 THEN <<"-">> \o Digits(0 - v.n) ELSE Digits(v.n)
      [] v.k = "boolean" -> IF v.n = 1 THEN <<"t", "r", "u", "e">>
                            ELSE <<"f", "a", "l", "s", "e">>
      [] v.k = "array" -> Join([i \in 1..Len(v.a) |->
                                   IF IsNullish(v.a[i]) THEN <<>> ELSE JsString(v.a[i])],
                               <<",">>)
      [] OTHER -> <<"[", "o", "b", "j", "e", "c", "t", " ", "O", "b", "j", "e", "c", "t", "]">>

\* array.join(separator): null and undefined elements give empty pieces
ArrayJoin(a, separator) ==
    Join([i \in 1..Len(a) |-> IF IsNullish(a[i]) THEN <<>> ELSE JsString(a[i])], separator)

\* getConditionLabel(value, fieldType): the label of the condition in the
\* catalog list of the type (the input list when unregistered), written
\* <<"label", value>>; the characters of value when the list has no such entry
getConditionLabel(value, fieldType) ==
    LET conditions == IF DEFAULT_CONDITIONS(fieldType) # <<>> THEN DEFAULT_CONDITIONS(fieldType)
                      ELSE DEFAULT_CONDITIONS("input")
    IN  IF \E i \in 1..Len(conditions) : conditions[i] = value
        THEN <<"label", value>>
        ELSE <<value>>

\* `${value[0]} ~ ${value[1]}`
RangeText(a) == JsString(a[1]) \o <<" ", "~", " ">> \o JsString(a[2])

\* display.length > 50 ? `${display.slice(0, 50)}...` : display
Truncate(display) ==
    IF Len(display) > 50 THEN SubSeq(display, 1, 50) \o <<".", ".", ".">> ELSE display

\* the displayValue memo of the hook on (valueType, value, condition)
displayValue_of(valueType, value, condition) ==
    IF condition = "null" \/ condition = "notNull" THEN getConditionLabel(condition, valueType)
    ELSE IF condition = "between" /\ value.k = "array" /\ valueType = "date"
         THEN IF Len(value.a) = 2 /\ ~Falsy(value.a[1]) /\ ~Falsy(value.a[2])
              THEN RangeText(value.a) ELSE <<>>
    ELSE IF condition = "between" /\ value.k = "array" /\ valueType = "digit"
         THEN IF Len(value.a) = 2 /\ value.a[1].k # "undefined" /\ value.a[2].k # "undefined"
              THEN RangeText(value.a) ELSE <<>>
    ELSE IF valueType = "textarea" /\ value.k = "string"
         THEN IF TextareaLines(value.s) = <<>> THEN <<>>
              ELSE Truncate(Join(TextareaLines(value.s), <<",", " ">>))
    ELSE IF valueType = "cascader" /\ value.k = "array" /\ Len(value.a) > 0
         THEN ArrayJoin(value.a, <<" ", "/", " ">>)
    ELSE IF Falsy(value) \/ (value.k = "array" /\ Len(value.a) = 0) THEN <<>>
    ELSE JsString(value)

\* the value types, values and conditions of the fields displayed
DisplayTypes == {"text", "digit", "money", "select", "date", "textarea", "cascader"}

DisplayValues == {
    Undefined, Null, EmptyString, Str(<<"a">>), Str(<<" ", "\n">>), Str(<<"a", "\n", " ", "b">>),
    Num(0), Num(5), Num(18), Bool(FALSE), Bool(TRUE),
    Arr(<<>>), Arr(<<Num(18), Num(30)>>), Arr(<<Num(0), Num(3)>>), Arr(<<Undefined, Num(3)>>),
    Arr(<<Str(<<"a">>), Str(<<"b">>)>>) }

DisplayConditions == {"equal", "notEqual", "in", "between", "null", "notNull", "include"}

DisplayInit ==
    /\ props = UtilityProps /\ InitialState
    /\ state = HttpInitialState /\ pending = <<>>
    /\ \E valueType \in DisplayTypes, value \in DisplayValues, condition \in DisplayConditions :
           call = [fn |-> "displayValue", valueType |-> valueType, value |-> value,
                   condition |-> condition, returned |-> FALSE, result |-> <<>>]

\* the field renders: the memo is computed
displayValue_renders ==
    /\ call.fn = "displayValue"
    /\ Returns(displayValue_of(call.valueType, call.value, call.condition))

DisplayNext == displayValue_renders

DisplaySpec == DisplayInit /\ [][DisplayNext]_vars

-----------------------------------------------------------------------------
(* useHttp: the state of the hook and the requests issued through it that    *)
(* have not settled, each named by its method                                *)

\* setState((s) => ({...s, loading: true, error: undefined}))
start(s) == [s EXCEPT !.loading = TRUE, !.error = "undefined"]

\* setState({data, error, loading: false})
finish(data, error) == [data |-> data, loading |-> FALSE, error |-> error]

\* get / post / put / delete up to the await: start() and the request is out
request(method) ==
    /\ Len(pending) < MaxRequests
    /\ state' = start(state)
    /\ pending' = Append(pending, method)
    /\ UNCHANGED <<storeVars, call>>

get == request("get")

post == request("post")

put == request("put")

del == request("delete")

\* the await of the i-th request out returns: finish(res, undefined)
request_resolves(i) ==
    /\ i \in 1..Len(pending)
    /\ state' = finish(pending[i], "undefined")
    /\ pending' = RemoveAt(pending, i)
    /\ UNCHANGED <<storeVars, call>>

\* the await of the i-th request out throws: finish(undefined, err)
request_rejects(i) ==
    /\ i \in 1..Len(pending)
    /\ state' = finish("undefined", "err")
    /\ pending' = RemoveAt(pending, i)
    /\ UNCHANGED <<storeVars, call>>

HttpInit == props = UtilityProps /\ InitialState /\ Idle

HttpNext ==
    \/ get
    \/ post
    \/ put
    \/ del
    \/ \E i \in 1..Len(pending) : request_resolves(i)
    \/ \E i \in 1..Len(pending) : request_rejects(i)

HttpSpec == HttpInit /\ [][HttpNext]_vars

-----------------------------------------------------------------------------
(* Properties of the store *)

\* the payload of the last onSubmit invocation
LastPayload == onSubmitCalls[1]

Called == onSubmitCalls # <<>>

\* the keys the descriptor list of the mounted provider declares
DescriptorKeys ==
    IF IsColumnVariant THEN {queryFields[i].key : i \in 1..Len(queryFields)}
    ELSE {FL_queryFields[i].key : i \in 1..Len(FL_queryFields)}

\* the value kind the descriptor list declares for a key
KindOf(key) ==
    IF IsColumnVariant
    THEN IF HasField(queryFields, key) THEN OrS(FindField(queryFields, key)[1].valueType, "text")
         ELSE Absent
    ELSE IF HasField(FL_queryFields, key) THEN FindField(FL_queryFields, key)[1].type
         ELSE Absent

IsNullCondition(c) == c = "null" \/ c = "notNull"

\* an entry of a declared field that holds nothing under a value-taking condition
HoldsInvalid(e) ==
    e.key \in DescriptorKeys /\ ~IsNullCondition(e.fv.condition) /\ IsEmptyScalar(e.fv.value)

\* an entry of a declared non-textarea field that holds a non-empty scalar
HoldsValid(e) ==
    /\ e.key \in DescriptorKeys /\ KindOf(e.key) # "textarea"
    /\ ~IsNullCondition(e.fv.condition)
    /\ e.fv.value.k \in {"string", "number"} /\ NonEmpty(e.fv.value)

\* C1: in the column-based provider, right after submit() the snapshot is the
\* whole live form, raw: an entry with an invalid value and an entry with a
\* valid value are both in submittedQueryForm with their live FieldValue,
\* while the query handed to onSubmit has the valid key and not the invalid one.
C1_SnapshotRawPayloadValid ==
    (IsColumnVariant /\ lastOp = "submit") =>
        \A i \in 1..Len(queryForm) :
            LET e == queryForm[i]
            IN  /\ HoldsInvalid(e) =>
                      /\ Has(submittedQueryForm, e.key)
                      /\ Get(submittedQueryForm, e.key) = e.fv
                      /\ ~Has(LastPayload.query, e.key)
                /\ HoldsValid(e) =>
                      /\ Has(submittedQueryForm, e.key)
                      /\ Get(submittedQueryForm, e.key) = e.fv
                      /\ Has(LastPayload.query, e.key)

C1_Witness ==
    /\ IsColumnVariant /\ lastOp = "submit" /\ edits > 0
    /\ \E i, j \in 1..Len(queryForm) :
          /\ HoldsInvalid(queryForm[i]) /\ HoldsValid(queryForm[j])
          /\ Has(submittedQueryForm, queryForm[i].key)
          /\ Has(submittedQueryForm, queryForm[j].key)
          /\ ~Has(LastPayload.query, queryForm[i].key)
          /\ Has(LastPayload.query, queryForm[j].key)

\* C2: a submit() that directly follows a submit(), with no edit of the query
\* form or the sort list between them, hands onSubmit the same normalized
\* query and the same sort list as the first one did.
C2_ResubmitSamePayload ==
    [][(lastOp = "submit" /\ lastOp' = "submit") => onSubmitCalls' = onSubmitCalls]_vars

C2_Witness ==
    /\ resubmitted /\ lastOp = "submit" /\ edits > 0
    /\ Called /\ LastPayload.query # <<>> /\ LastPayload.sort # <<>>

LiveEditOps == {"updateFieldValue", "addSort", "updateSort", "reorderSort", "toggleSort"}

\* C3: updateFieldValue, addSort, updateSort, reorderSort and toggleSort leave
\* submittedQueryForm, submittedSortForm and hasSubmitted as they were.
C3_EditsKeepSnapshots ==
    [][(lastOp' \in LiveEditOps /\ edits' = edits + 1) =>
          UNCHANGED <<submittedQueryForm, submittedSortForm, hasSubmitted>>]_vars

\* a live edit ran after a submit: the snapshots no longer equal the live forms
C3_Witness ==
    /\ lastOp \in LiveEditOps /\ hasSubmitted /\ edits = MaxEdits
    /\ submittedQueryForm # <<>>
    /\ (submittedQueryForm # queryForm \/ submittedSortForm # sortForm)

\* C4: the live query form has an entry for every key of the descriptor list.
C4_EveryDescriptorKeyLive ==
    \A key \in DescriptorKeys : Has(queryForm, key)

C4_Witness ==
    /\ lastOp \in {"resetFieldValue", "resetAll"} /\ edits > 0 /\ hasSubmitted
    /\ \A key \in DescriptorKeys : Has(queryForm, key)

\* the entries of a sort list that are not undefined holes have distinct keys
UniqueKeys(list) ==
    \A i, j \in 1..Len(list) :
        (i # j /\ ~IsUndefinedEntry(list[i]) /\ ~IsUndefinedEntry(list[j]))
            => list[i].key # list[j].key

\* C5: the live sortForm and the submittedSortForm each hold at most one
\* entry per key.
C5_OneEntryPerKey == UniqueKeys(sortForm) /\ UniqueKeys(submittedSortForm)

C5_Witness ==
    /\ Len(sortForm) = 2 /\ Len(submittedSortForm) = 2
    /\ lastOp = "addSort" /\ edits = MaxEdits
    /\ HasSort(sortForm, "age") /\ HasSort(sortForm, "score")

\* the default value and condition the descriptor list declares for a key
DefaultValueOf(key) ==
    IF IsColumnVariant THEN ColumnInitialValue(FindField(queryFields, key)[1])
    ELSE FL_DefaultFieldValue(FindField(FL_queryFields, key)[1]).value

DefaultConditionOf(key) ==
    IF IsColumnVariant
    THEN ColumnInitialCondition(FindField(queryFields, key)[1], props.disableConditions)
    ELSE FL_DefaultFieldValue(FindField(FL_queryFields, key)[1]).condition

HoldsDefaults(form, key) ==
    /\ Has(form, key)
    /\ Get(form, key).value = DefaultValueOf(key)
    /\ Get(form, key).condition = DefaultConditionOf(key)

\* C6: right after resetAll(), whatever the props, every declared field's live
\* value and condition are its descriptor defaults, the live sortForm is
\* empty and hasSubmitted is false.
C6_ResetAllComplete ==
    lastOp = "resetAll" =>
        /\ \A key \in DescriptorKeys : HoldsDefaults(queryForm, key)
        /\ sortForm = <<>>
        /\ hasSubmitted = FALSE

\* C7: right after resetAll() with auto-query disabled both snapshots are empty.
C7_ResetAllEmptiesSnapshots ==
    (lastOp = "resetAll" /\ ~props.autoQuery) =>
        /\ submittedQueryForm = <<>>
        /\ submittedSortForm = <<>>

\* every entry of form other than key's is in form2 with the same FieldValue,
\* and form2 has no further key
SameExcept(form, form2, key) ==
    /\ \A k \in Keys(form) \ {key} : Has(form2, k) /\ Get(form2, k) = Get(form, k)
    /\ Keys(form2) \ {key} \subseteq Keys(form)

\* C8: resetFieldValue(key) for a declared key restores the key's live
\* FieldValue to the descriptor defaults, removes key from submittedQueryForm,
\* clears hasSubmitted when that leaves the snapshot empty, and changes no
\* other entry of the live form or of the snapshot.
C8_ResetFieldValueClearsSnapshot ==
    [][\A key \in DescriptorKeys :
          (resetFieldValue(key) \/ FL_resetFieldValue(key)) =>
              /\ HoldsDefaults(queryForm', key)
              /\ ~Has(submittedQueryForm', key)
              /\ (submittedQueryForm' = <<>>) => (hasSubmitted' = FALSE)
              /\ SameExcept(queryForm, queryForm', key)
              /\ SameExcept(submittedQueryForm, submittedQueryForm', key)]_vars

\* C9: right after submit(), every live entry of a declared field whose
\* condition is null or notNull appears in the query handed to onSubmit with
\* value undefined and the same condition, whatever value the live entry holds.
C9_NullConditionsCarryNoValue ==
    lastOp = "submit" =>
        \A i \in 1..Len(queryForm) :
            LET e == queryForm[i]
            IN  (e.key \in DescriptorKeys /\ IsNullCondition(e.fv.condition)) =>
                    /\ Has(LastPayload.query, e.key)
                    /\ Get(LastPayload.query, e.key).value = Undefined
                    /\ Get(LastPayload.query, e.key).condition = e.fv.condition

\* the string "a\n\nb \n" and the line array ["a", "b"]
SampleText == Str(<<"a", "\n", "\n", "b", " ", "\n">>)

SampleLines == Arr(<<Str(<<"a">>), Str(<<"b">>)>>)

\* C10: right after submit(), a textarea field whose live value is a string
\* with a non-blank line appears in the query handed to onSubmit with the
\* array of its trimmed non-blank lines, in order ("a\n\nb \n" gives
\* ["a", "b"]); the live form still holds the string.
C10_TextareaSubmitsLines ==
    lastOp = "submit" =>
        \A i \in 1..Len(queryForm) :
            LET e == queryForm[i]
            IN  (KindOf(e.key) = "textarea" /\ e.fv.value.k = "string"
                 /\ ~IsNullCondition(e.fv.condition)
                 /\ TextareaLines(e.fv.value.s) # <<>>) =>
                    /\ Has(LastPayload.query, e.key)
                    /\ Get(LastPayload.query, e.key).value = LinesValue(e.fv.value.s)
                    /\ (e.fv.value = SampleText =>
                            Get(LastPayload.query, e.key).value = SampleLines)

-----------------------------------------------------------------------------
(* Properties of field validity *)

\* C11: for every declared field and the FieldValue it holds, the decision
\* submit takes to keep or drop the entry, the isValid of the field's
\* useSearchField and the isFieldValueValid helper of the store agree.
C11_ValidityDecisionsAgree ==
    IF IsColumnVariant
    THEN \A i \in 1..Len(queryFields) :
             LET field == queryFields[i]
                 fv    == getFieldValue(field.key)
             IN  /\ performSubmit_isValid(field.key, fv) = isValid(field)
                 /\ isFieldValueValid(field.key, fv) = isValid(field)
    ELSE \A i \in 1..Len(FL_queryFields) :
             LET field == FL_queryFields[i]
                 fv    == getFieldValue(field.key)
             IN  FL_isFieldValueValid(field.key, fv) = FL_isValid(field)

\* the validity rules as stated for a value of a field of the given kind
RuleValid(kind, value, condition) ==
    IF IsNullCondition(condition) THEN TRUE
    ELSE IF kind = "textarea" /\ value.k = "string" THEN TextareaLines(value.s) # <<>>
    ELSE IF value.k = "array"
         THEN IF condition = "between"
              THEN Len(value.a) = 2 /\ \A j \in 1..2 : ~IsEmptyScalar(value.a[j])
              ELSE \E j \in 1..Len(value.a) : ~IsEmptyScalar(value.a[j])
    ELSE ~IsEmptyScalar(value)

\* C12: the isValid of useSearchField equals the stated rules on every value
\* and condition a field holds: null / notNull valid; a textarea string valid
\* iff it has a non-blank line; an array under between valid iff it has two
\* non-empty slots; any other array valid iff some element is non-empty (so
\* [""] and [undefined] are invalid); a scalar valid iff non-empty.
C12_FieldValidityRules ==
    IF IsColumnVariant
    THEN \A i \in 1..Len(queryFields) :
             LET field == queryFields[i]
             IN  isValid(field) = RuleValid(useSearchField_valueType(field),
                                            useSearchField_value(field),
                                            useSearchField_condition(field))
    ELSE \A i \in 1..Len(FL_queryFields) :
             LET field == FL_queryFields[i]
             IN  FL_isValid(field) = RuleValid(field.type, FL_useSearchField_value(field),
                                               FL_useSearchField_condition(field))

\* C13: right after submit(), no live entry whose condition is between and
\* whose value is not an array is in the query handed to onSubmit.
C13_ShapeMismatchDropped ==
    lastOp = "submit" =>
        \A i \in 1..Len(queryForm) :
            LET e == queryForm[i]
            IN  (e.fv.condition = "between" /\ e.fv.value.k # "array") =>
                    ~Has(LastPayload.query, e.key)

\* C14: right after submit(), a live entry under a key no descriptor declares
\* is in the query handed to onSubmit iff its value is a non-empty scalar or
\* an array with at least one element.
C14_UndeclaredKeyNonEmpty ==
    lastOp = "submit" =>
        \A i \in 1..Len(queryForm) :
            LET e == queryForm[i]
            IN  e.key \notin DescriptorKeys =>
                    (Has(LastPayload.query, e.key) <=>
                        IF e.fv.value.k = "array" THEN Len(e.fv.value.a) > 0
                        ELSE ~IsEmptyScalar(e.fv.value))

-----------------------------------------------------------------------------
(* Properties of updateFieldValue and of the condition coercions *)

\* the second argument is a {value, condition} object
IsValueConditionObject(v) == v.k = "object" /\ Len(v.a) > 0 /\ v.c # Absent

\* C15: updateFieldValue(key, x, c) stores value x and condition c;
\* updateFieldValue(key, {value: v, condition: c}) stores v and c for every v,
\* undefined and null included; updateFieldValue(key, x) with a bare x stores x
\* and keeps the current condition.  The stored type of a declared key is the
\* explicit one, else the existing one, else the descriptor's, and the entries
\* of the other keys are unchanged.
C15_UpdateFieldValueShapes ==
    [][\A u \in FieldUpdateArgs :
          (\/ updateFieldValue(u.key, u.value, u.condition, u.type)
           \/ FL_updateFieldValue(u.key, u.value, u.condition)) =>
              LET before == getFieldValue(u.key)
                  after  == Get(queryForm', u.key)
              IN  /\ Has(queryForm', u.key)
                  /\ after.value = IF u.condition # Absent THEN u.value
                                   ELSE IF IsValueConditionObject(u.value) THEN u.value.a[1]
                                   ELSE u.value
                  /\ after.condition = IF u.condition # Absent THEN u.condition
                                       ELSE IF IsValueConditionObject(u.value) THEN u.value.c
                                       ELSE before.condition
                  /\ u.key \in DescriptorKeys =>
                         after.type = CoalesceS(u.type, CoalesceS(before.type, KindOf(u.key)))
                  /\ SameExcept(queryForm, queryForm', u.key)]_vars

NumberGroup == {"number", "digit", "money"}

DateGroup == {"date", "dateTime"}

SingleValueConditions == {"equal", "notEqual", "greaterThan", "lessThan"}

\* what setCondition(newCondition) has to store for a field of the given kind
\* that shows value under condition, where the stated coercions apply
CoercionHolds(kind, value, condition, newCondition, stored) ==
    /\ (/\ kind = "select" /\ condition \in {"equal", "notEqual"}
        /\ newCondition \in {"in", "notIn"}
        /\ value.k \in {"string", "number"} /\ ~IsEmptyScalar(value)) =>
           stored = Arr(<<value>>)
    /\ (/\ kind = "select" /\ condition \in {"in", "notIn"}
        /\ newCondition \in {"equal", "notEqual"}
        /\ value.k = "array" /\ Len(value.a) = 1) =>
           stored = value.a[1]
    /\ (/\ kind \in NumberGroup \cup DateGroup /\ condition \in SingleValueConditions
        /\ newCondition = "between" /\ value.k \in {"string", "number"}) =>
           stored = Arr(<<IF IsEmptyScalar(value) THEN Undefined ELSE value,
                          IF IsEmptyScalar(value) THEN Undefined ELSE value>>)
    /\ (/\ kind \in NumberGroup \cup DateGroup /\ condition = "between"
        /\ newCondition \in SingleValueConditions
        /\ value.k = "array" /\ Len(value.a) = 2) =>
           stored = value.a[1]

\* C16: setCondition converts the value with the condition: a select field's
\* non-empty scalar v becomes [v] from equal / notEqual to in / notIn and v
\* again on the way back; for every kind of the number group (number, digit,
\* money) and of the date group (date, dateTime) a scalar v becomes [v, v]
\* (undefined slots when v is empty) on the way to between and the first slot
\* on the way back.
C16_ConditionCoercionRoundTrips ==
    [][/\ \A i \in 1..Len(queryFields), newCondition \in SampleConditions :
              setCondition(queryFields[i], newCondition) =>
                  CoercionHolds(useSearchField_valueType(queryFields[i]),
                                useSearchField_value(queryFields[i]),
                                useSearchField_condition(queryFields[i]),
                                newCondition,
                                Get(queryForm', queryFields[i].key).value)
       /\ \A i \in 1..Len(FL_queryFields), newCondition \in SampleConditions :
              FL_setCondition(FL_queryFields[i], newCondition) =>
                  CoercionHolds(FL_queryFields[i].type,
                                FL_useSearchField_value(FL_queryFields[i]),
                                FL_useSearchField_condition(FL_queryFields[i]),
                                newCondition,
                                Get(queryForm', FL_queryFields[i].key).value)]_vars

\* the value a field leaves null / notNull with: the descriptor default, else
\* undefined for the numeric kinds, else ""
DefaultStart(kind, default) ==
    IF ~IsNullish(default) THEN default
    ELSE IF kind \in {"digit", "number", "money"} THEN Undefined
    ELSE EmptyString

\* the coercion of a scalar v for newCondition
Coerced(kind, v, newCondition) ==
    IF kind = "select" /\ newCondition \in {"in", "notIn"}
    THEN IF IsEmptyScalar(v) THEN Arr(<<>>) ELSE Arr(<<v>>)
    ELSE IF kind \in NumberGroup \cup DateGroup /\ newCondition = "between"
    THEN Arr(<<IF IsEmptyScalar(v) THEN Undefined ELSE v,
               IF IsEmptyScalar(v) THEN Undefined ELSE v>>)
    ELSE v

\* what setCondition(newCondition) has to store when it enters or leaves
\* null / notNull
NullSwitchHolds(kind, default, condition, newCondition, after) ==
    IF IsNullCondition(newCondition)
    THEN after.value = Undefined /\ after.condition = newCondition
    ELSE IsNullCondition(condition) =>
             /\ after.value = Coerced(kind, DefaultStart(kind, default), newCondition)
             /\ after.condition = newCondition

\* C17: setCondition(null or notNull) stores value undefined with the new
\* condition; setCondition(c) for another c from a null / notNull state stores,
\* together with c, the coercion for c of the descriptor default (defaultValue,
\* else undefined for the kinds digit, number and money, else "").
C17_NullConditionSwitch ==
    [][/\ \A i \in 1..Len(queryFields), newCondition \in SampleConditions :
              setCondition(queryFields[i], newCondition) =>
                  NullSwitchHolds(useSearchField_valueType(queryFields[i]),
                                  queryFields[i].initialValue,
                                  useSearchField_condition(queryFields[i]),
                                  newCondition,
                                  Get(queryForm', queryFields[i].key))
       /\ \A i \in 1..Len(FL_queryFields), newCondition \in SampleConditions :
              FL_setCondition(FL_queryFields[i], newCondition) =>
                  NullSwitchHolds(FL_queryFields[i].type,
                                  FL_queryFields[i].defaultValue,
                                  FL_useSearchField_condition(FL_queryFields[i]),
                                  newCondition,
                                  Get(queryForm', FL_queryFields[i].key))]_vars

\* the range [18, 30] and the empty range [undefined, undefined]
SampleRange == Arr(<<Num(18), Num(30)>>)

EmptyRange == Arr(<<Undefined, Undefined>>)

\* a number field whose default condition is equal, of either variant
IsNumberEqualColumn(field) ==
    field.valueType = "number" /\ CoalesceS(field.defaultCondition, "equal") = "equal"

FL_IsNumberEqualField(field) ==
    field.type = "number" /\ CoalesceS(field.defaultCondition, "equal") = "equal"

\* the entry submit hands to onSubmit for key is {between, [18, 30], number}
RangeSubmitted(payload, key) ==
    /\ Has(payload.query, key)
    /\ Get(payload.query, key).condition = "between"
    /\ Get(payload.query, key).value = SampleRange
    /\ Get(payload.query, key).type = "number"

\* C18: for a number field with default condition equal that is at its
\* defaults, setCondition("between") stores the value [undefined, undefined];
\* once setValue([18, 30]) has stored the range, submit() hands onSubmit
\* {condition between, value [18, 30], value kind number} for the field.
C18_BetweenThenRangeSubmits ==
    [][/\ \A i \in 1..Len(queryFields) :
              LET field == queryFields[i]
              IN  IsNumberEqualColumn(field) =>
                      /\ (/\ setCondition(field, "between")
                          /\ getFieldValue(field.key) = Get(initialForm(props), field.key)) =>
                             Get(queryForm', field.key).value = EmptyRange
                      /\ (/\ submit
                          /\ getFieldValue(field.key).value = SampleRange
                          /\ getFieldValue(field.key).condition = "between") =>
                             RangeSubmitted(onSubmitCalls'[1], field.key)
       /\ \A i \in 1..Len(FL_queryFields) :
              LET field == FL_queryFields[i]
              IN  FL_IsNumberEqualField(field) =>
                      /\ (/\ FL_setCondition(field, "between")
                          /\ getFieldValue(field.key) = Get(FL_initialForm(props), field.key)) =>
                             Get(queryForm', field.key).value = EmptyRange
                      /\ (/\ FL_submit
                          /\ getFieldValue(field.key).value = SampleRange
                          /\ getFieldValue(field.key).condition = "between") =>
                             RangeSubmitted(onSubmitCalls'[1], field.key)]_vars

-----------------------------------------------------------------------------
(* Properties of the sort list *)

\* the direction the sort descriptor of key declares, Absent when it declares
\* none or no descriptor has the key
DeclaredDirection(key) ==
    IF IsColumnVariant
    THEN LET found == FindField(sortFields, key)
         IN  IF found = <<>> THEN Absent
             ELSE IF found[1].defaultSortOrder = "descend" THEN "desc"
             ELSE IF found[1].defaultSortOrder = "ascend" THEN "asc"
             ELSE Absent
    ELSE LET found == FindField(FL_sortFields, key)
         IN  IF found = <<>> THEN Absent ELSE found[1].direction

\* a list all of whose elements are entries
NoHoles(list) == \A i \in 1..Len(list) : ~IsUndefinedEntry(list[i])

Occurrences(list, e) == Cardinality({i \in 1..Len(list) : list[i] = e})

SameMultiset(a, b) ==
    /\ Len(a) = Len(b)
    /\ \A i \in 1..Len(a) : Occurrences(a, a[i]) = Occurrences(b, a[i])

\* list without its i-th element
Without(list, i) == SubSeq(list, 1, i - 1) \o SubSeq(list, i + 1, Len(list))

\* b is a with at most one element taken out and put back somewhere
MovedOne(a, b) ==
    \/ a = b
    \/ \E i \in 1..Len(a), j \in 1..Len(b) : a[i] = b[j] /\ Without(a, i) = Without(b, j)

\* C20: reorderSort(oldIndex, newIndex), for every pair of indices including
\* -1 and indices past the end, leaves sortForm with the same multiset of
\* entries, all entries but the moved one in their former relative order.
C20_ReorderKeepsEntries ==
    [][\A oldIndex \in Indices, newIndex \in Indices :
          reorderSort(oldIndex, newIndex) =>
              SameMultiset(sortForm, sortForm') /\ MovedOne(sortForm, sortForm')]_vars

\* list without the entries of key
WithoutKey(list, key) == SelectSeq(list, LAMBDA e : e.key # key)

\* C21: removeSort(key) removes the entry of key from the live sortForm and
\* from submittedSortForm and leaves the other entries of both lists, and
\* their order, as they were.
C21_RemoveSortBothLists ==
    [][\A key \in SortKeys :
          (/\ removeSort(key) \/ FL_removeSort(key)
           /\ NoHoles(sortForm) /\ NoHoles(submittedSortForm)) =>
              /\ sortForm' = WithoutKey(sortForm, key)
              /\ submittedSortForm' = WithoutKey(submittedSortForm, key)]_vars

\* C22: addSort(key) with no order, run right after a removeSort on a list
\* that no longer has key, makes key the last entry of the list, with the
\* descriptor's direction (asc when it declares none), and leaves the entries
\* before it as they were.
C22_ReAddedSortIsLastWithDefault ==
    [][\A key \in SortKeys :
          (/\ lastOp = "removeSort" /\ NoHoles(sortForm)
           /\ \A i \in 1..Len(sortForm) : sortForm[i].key # key
           /\ addSort(key, Absent)) =>
              /\ Len(sortForm') = Len(sortForm) + 1
              /\ SubSeq(sortForm', 1, Len(sortForm)) = sortForm
              /\ sortForm'[Len(sortForm')] =
                     SortEntry(key, CoalesceS(DeclaredDirection(key), "asc"))]_vars

\* age, seeded first, was removed after score had been added and then added
\* again: it is last
C22_Witness ==
    /\ lastOp = "addSort" /\ edits = 2
    /\ sortForm = <<SortEntry("score", "asc"), SortEntry("age", "desc")>>

\* the other direction
OtherDirection(order) == IF order = "asc" THEN "desc" ELSE "asc"

\* C23: toggleSort(key) on a list that has key keeps the length and replaces
\* only the entry of key, in place, by the entry with the other direction; on
\* a list without key it appends one entry with the descriptor's direction,
\* asc when it declares none.
C23_ToggleSortFlipsOrAppends ==
    [][\A key \in SortKeys :
          (toggleSort(key) /\ NoHoles(sortForm)) =>
              IF \E i \in 1..Len(sortForm) : sortForm[i].key = key
              THEN /\ Len(sortForm') = Len(sortForm)
                   /\ \A i \in 1..Len(sortForm) :
                          sortForm'[i] =
                              IF sortForm[i].key = key
                              THEN SortEntry(key, OtherDirection(sortForm[i].order))
                              ELSE sortForm[i]
              ELSE sortForm' = Append(sortForm,
                                      SortEntry(key, CoalesceS(DeclaredDirection(key), "asc")))]_vars

\* score was appended and age, in front of it, flipped from desc to asc
C23_Witness ==
    /\ lastOp = "toggleSort" /\ edits = 2
    /\ sortForm = <<SortEntry("age", "asc"), SortEntry("score", "asc")>>

-----------------------------------------------------------------------------
(* Properties of the resets and of the initial state *)

\* C24: with auto-query enabled, a resetFieldValue(key) for a declared key
\* invokes onSubmit, with the payload of the forms the reset leaves.
C24_FieldResetAutoSubmits ==
    [][\A key \in DescriptorKeys :
          (props.autoQuery /\ resetFieldValue(key)) =>
              /\ onSubmitRuns' >= 1
              /\ onSubmitCalls' = <<Payload(filteredQuery(queryForm'), sortForm')>>]_vars

\* C25: with auto-query enabled resetAll() invokes onSubmit exactly once, with
\* the payload of the query form and the sort list the reset leaves; with
\* auto-query disabled it does not invoke onSubmit.
C25_ResetAllSubmitsResetState ==
    [][(resetAll \/ FL_resetAll) =>
          IF props.autoQuery
          THEN /\ onSubmitRuns' = 1
               /\ onSubmitCalls' = <<Payload(filteredQuery(queryForm'), sortForm')>>
          ELSE /\ onSubmitRuns' = 0
               /\ onSubmitCalls' = onSubmitCalls]_vars

\* resetAll ran with auto-query on a form that two updates had changed, and
\* onSubmit was handed the seeded status and nothing of the updates
C25_Witness ==
    /\ lastOp = "resetAll" /\ props.autoQuery /\ edits = 2
    /\ onSubmitRuns = 1
    /\ LastPayload.query = <<Entry("status", FieldValue(Str(<<"o">>), "equal", "select"))>>

\* C26: with disableConditions set, every declared field's live condition is
\* equal right after initialization and right after resetAll(), and the
\* condition of key is equal right after resetFieldValue(key).
C26_DisableConditionsForcesEqual ==
    /\ [](props.disableConditions /\ lastOp \in {"mount", "resetAll"} =>
             \A key \in DescriptorKeys :
                 Has(queryForm, key) /\ Get(queryForm, key).condition = "equal")
    /\ [][\A key \in DescriptorKeys :
             (props.disableConditions /\ resetFieldValue(key)) =>
                 Get(queryForm', key).condition = "equal"]_vars

\* the entries of a form with the given key
EntriesOf(form, key) == SelectSeq(form, LAMBDA e : e.key = key)

\* the sort entries the sort descriptors declare, in descriptor order
DeclaredSorts ==
    IF IsColumnVariant
    THEN LET declared == SelectSeq(sortFields, LAMBDA f : f.defaultSortOrder # Absent)
         IN  [i \in 1..Len(declared) |->
                 SortEntry(declared[i].key, DeclaredDirection(declared[i].key))]
    ELSE LET declared == SelectSeq(FL_sortFields, LAMBDA f : f.direction # Absent)
         IN  [i \in 1..Len(declared) |-> SortEntry(declared[i].key, declared[i].direction)]

\* C27: in the initial state the live query form holds one entry per declared
\* key; a caller-supplied entry is kept as given and every other entry has the
\* descriptor's default value and condition (equal under disableConditions);
\* the live sortForm holds, in descriptor order, the sort descriptors that
\* declare a direction; submittedQueryForm is empty, submittedSortForm equals
\* sortForm and hasSubmitted is false.
C27_InitialState ==
    lastOp = "mount" =>
        /\ \A key \in DescriptorKeys : Len(EntriesOf(queryForm, key)) = 1
        /\ \A i \in 1..Len(props.initialQueryForm) :
               EntriesOf(queryForm, props.initialQueryForm[i].key)
                   = <<props.initialQueryForm[i]>>
        /\ \A key \in DescriptorKeys :
               EntriesOf(props.initialQueryForm, key) = <<>> => HoldsDefaults(queryForm, key)
        /\ sortForm = DeclaredSorts
        /\ submittedQueryForm = <<>>
        /\ submittedSortForm = sortForm
        /\ hasSubmitted = FALSE

\* a provider mounted with a caller-supplied entry for name, under
\* disableConditions, with the declared sort of age
C27_Witness ==
    /\ lastOp = "mount" /\ props.disableConditions
    /\ Get(queryForm, "name").condition = "include"
    /\ Get(queryForm, "age").condition = "equal"
    /\ sortForm = <<SortEntry("age", "desc")>>

-----------------------------------------------------------------------------
(* Properties of the option requests *)

\* C28: for one key at most one request is in flight; an operation that
\* replaces the query form while a request of the key is outstanding starts
\* no request for the key, and when that request settles no request for the
\* key is started in its place; requests of different keys are in flight
\* together.
C28_OneFetchPerKey ==
    /\ [](\A fieldKey \in RequestKeys : Len(fetches[fieldKey]) <= 1)
    /\ [][\A fieldKey \in RequestKeys :
             /\ (loadingRef[fieldKey] /\ queryForm' # queryForm) =>
                    fetches'[fieldKey] = fetches[fieldKey]
             /\ (\E outcome \in Outcomes : loadOptions_settles(fieldKey, 1, outcome)) =>
                    fetches'[fieldKey] = <<>>]_vars

\* name was updated while the request of status started at mount is
\* outstanding: that request, with the old name, is the only one of status,
\* and the request of price is in flight with it
C28_Witness ==
    /\ lastOp = "updateFieldValue"
    /\ Len(fetches["status"]) = 1 /\ Len(fetches["price"]) = 1
    /\ fetches["status"][1] # currentDepValues("status", queryForm)

\* C29: when a request of a key settles that was started with params other
\* than the current dependency values, a request with the current dependency
\* values is started for the key without a further edit.
C29_RefetchAfterSettle ==
    [][\A fieldKey \in RequestKeys, outcome \in Outcomes :
          (/\ loadOptions_settles(fieldKey, 1, outcome)
           /\ fetches[fieldKey][1] # currentDepValues(fieldKey, queryForm)) =>
              fetches'[fieldKey] = <<currentDepValues(fieldKey, queryForm)>>]_vars

\* C30: when a request of a key rejects or resolves with something that is
\* no array, every key's option list stays what it was, the forms, the
\* snapshots and onSubmit are not touched, and the flag of the key is cleared;
\* an operation that replaces the query form while the flag of a key is clear
\* starts a request for the key.
C30_FailedFetchKeepsOptions ==
    [][\A fieldKey \in RequestKeys :
          /\ (\E outcome \in {"requestResolvedOther", "requestRejected"} :
                  \E i \in 1..Len(fetches[fieldKey]) :
                      loadOptions_settles(fieldKey, i, outcome)) =>
                 /\ fieldOptions' = fieldOptions
                 /\ ~loadingRef'[fieldKey]
                 /\ UNCHANGED <<queryForm, submittedQueryForm, sortForm, submittedSortForm,
                                hasSubmitted, onSubmitCalls, crashed>>
                 /\ onSubmitRuns' = 0
          /\ (~loadingRef[fieldKey] /\ queryForm' # queryForm) =>
                 /\ loadingRef'[fieldKey]
                 /\ fetches'[fieldKey] =
                        Append(fetches[fieldKey], currentDepValues(fieldKey, queryForm'))]_vars

\* the second request of status, started with name b after the first had
\* loaded the options for the empty name, was rejected: the options are
\* still those of the first
C30_Witness ==
    /\ lastOp = "requestRejected"
    /\ fieldOptions["status"].has
    /\ fieldOptions["status"].params # currentDepValues("status", queryForm)
    /\ ~loadingRef["status"] /\ fetches["status"] = <<>>

\* C31: after mount, a request for a key is started only by a step that
\* changes the value of one of the key's declared dependency keys.
C31_FetchOnlyOnDependencyChange ==
    [][\A fieldKey \in RequestKeys :
          Len(fetches'[fieldKey]) > Len(fetches[fieldKey]) =>
              currentDepValues(fieldKey, queryForm') # currentDepValues(fieldKey, queryForm)]_vars

\* C38: for one key, results are applied in the order their requests were
\* started: a request that resolves is never one started before the request
\* whose result the key's options hold.
C38_ResultsInStartOrder ==
    [][\A fieldKey \in RequestKeys :
          \A i \in 1..Len(fetches[fieldKey]) :
              loadOptions_settles(fieldKey, i, "requestResolved") => i > overtaken[fieldKey]]_vars

\* the options of status are the result of a request started after the one
\* of the mount, with the name of a later edit
C38_Witness ==
    /\ lastOp = "requestResolved"
    /\ fieldOptions["status"].has
    /\ fieldOptions["status"].params # currentDepValues("status", initialForm(props))
    /\ fieldOptions["status"].params = currentDepValues("status", queryForm)
    /\ fetches["status"] = <<>>

\* C39: with no initial form from the caller and conditions enabled,
\* resetFieldValue(key) of a declared key stores the FieldValue the
\* initialization produced for the key: the same value, condition and type.
C39_ResetRestoresInitial ==
    [][\A key \in QueryFieldKeys :
          (/\ props.initialQueryForm = <<>> /\ ~props.disableConditions
           /\ resetFieldValue(key)) =>
              Get(queryForm', key) = Get(initialForm(props), key)]_vars

-----------------------------------------------------------------------------
(* Properties of the submitted snapshot *)

\* the validity predicate the mounted provider's submit applies
SubmitValid(key, fv) ==
    IF IsColumnVariant THEN performSubmit_isValid(key, fv) ELSE FL_isFieldValueValid(key, fv)

\* C33: right after a submit(), every key of submittedQueryForm holds, in the
\* form that was submitted, a FieldValue that passes the validity predicate.
C33_SnapshotOnlyValidKeys ==
    lastOp = "submit" =>
        \A i \in 1..Len(submittedQueryForm) :
            LET key == submittedQueryForm[i].key
            IN  Has(queryForm, key) /\ SubmitValid(key, Get(queryForm, key))

-----------------------------------------------------------------------------
(* Properties of the mutators' failures *)

\* C34: no store mutator raises, whatever its arguments: no state updater
\* of the provider ever throws; and resetFieldValue with a key no descriptor
\* declares leaves the whole state as it was.
C34_MutatorsNeverRaise ==
    /\ [](~crashed)
    /\ [][(resetFieldValue(GhostKey) \/ FL_resetFieldValue(GhostKey)) =>
             UNCHANGED <<props, queryForm, hasSubmitted, submittedQueryForm, sortForm,
                         submittedSortForm, onSubmitCalls, fieldOptions, loadingRef,
                         fetches, crashed>>]_vars

-----------------------------------------------------------------------------
(* Properties of the utility functions *)

\* the catalog list of a kind, the text list when the catalog has none
CatalogList(kind) ==
    IF DEFAULT_CONDITIONS(kind) # <<>> THEN DEFAULT_CONDITIONS(kind)
    ELSE DEFAULT_CONDITIONS("text")

\* C32: getFieldConditions(kind, allowed) returns the catalog list of kind,
\* the text list when kind is not registered; with allowed supplied it returns
\* that list restricted to the conditions in allowed, in catalog order.
C32_ConditionsOfKind ==
    (call.fn = "getFieldConditions" /\ call.returned) =>
        call.result =
            IF call.customConditions.given
            THEN SelectSeq(CatalogList(call.fieldType),
                           LAMBDA c : \E i \in 1..Len(call.customConditions.list) :
                                          call.customConditions.list[i] = c)
            ELSE CatalogList(call.fieldType)

MKeys(object) == {object.fields[i].key : i \in 1..Len(object.fields)}

\* result is the merge of target and source the claim describes
RECURSIVE IsMergeOf(_, _, _)
IsMergeOf(result, target, source) ==
    /\ result.kind = "object"
    /\ MKeys(result) = MKeys(target) \cup MKeys(source)
    /\ Len(result.fields) = Cardinality(MKeys(result))
    /\ \A key \in MKeys(result) :
           LET r == MGet(result.fields, key)
               t == MGet(target.fields, key)
               v == MGet(source.fields, key)
           IN  IF key \notin MKeys(source) THEN r = t
               ELSE IF key \in MKeys(target) /\ t.kind = "object" /\ v.kind = "object"
                    THEN IsMergeOf(r, t, v)
               ELSE r = v

\* C35: deepMerge(target, source) returns target when source is null or
\* undefined; otherwise the result has the keys of target and of source, a
\* key whose target and source values are both objects has their merge, and
\* every other key of source has the source value.
C35_DeepMerge ==
    (call.fn = "deepMerge" /\ call.returned) =>
        IF call.source.kind \in {"null", "undefined"} THEN call.result = call.target
        ELSE IsMergeOf(call.result, call.target, call.source)

\* {a: {c: 2}, b: 1} merged with {a: {d: [..]}, b: null}: a is merged, b
\* replaced by null
C35_Witness ==
    /\ call.fn = "deepMerge" /\ call.returned
    /\ call.target = MObject(<<MField("a", MObject(<<MField("c", MValue("number", 2))>>)),
                               MField("b", MValue("number", 1))>>)
    /\ call.source = MObject(<<MField("a", MObject(<<MField("d", MValue("array", 2))>>)),
                               MField("b", MNull)>>)
    /\ call.result = MObject(<<MField("a", MObject(<<MField("c", MValue("number", 2)),
                                                      MField("d", MValue("array", 2))>>)),
                               MField("b", MNull)>>)

\* C36: for a scalar value other than undefined, null and the empty string
\* (0 and false included), under a condition other than null, notNull and
\* between, on a type other than textarea and cascader, displayValue is
\* String(value), and so is non-empty whenever the field is valid.
C36_DisplayValueIsString ==
    (/\ call.fn = "displayValue" /\ call.returned
     /\ call.value.k \in {"string", "number", "boolean"} /\ NonEmpty(call.value)
     /\ call.condition \notin {"null", "notNull", "between"}
     /\ call.valueType \notin {"textarea", "cascader"})
    => /\ call.result = JsString(call.value)
       /\ isValid_of(call.valueType, call.value, call.condition) => call.result # <<>>

-----------------------------------------------------------------------------
(* Properties of the tiled select *)

\* C37: choosing an option in a tiled multiple select whose condition is
\* neither in nor notIn leaves the field with condition in and an array
\* that contains the option; in single mode, when the condition is forced
\* to equal, the chosen option is the stored value.
C37_TiledSelectKeepsChoice ==
    [][\A i \in 1..Len(queryFields), val \in SelectOptions :
           LET field     == queryFields[i]
               condition == useSearchField_condition(field)
               stored    == Get(queryForm', field.key)
           IN  useSearchField_valueType(field) = "select" =>
                   /\ (handleSelect(field, TRUE, val) /\ condition \notin {"in", "notIn"})
                      => /\ stored.condition = "in"
                         /\ stored.value.k = "array"
                         /\ \E j \in 1..Len(stored.value.a) : stored.value.a[j] = val
                   /\ (handleSelect(field, FALSE, val) /\ condition \notin {"equal", "notEqual"}
                         /\ useSearchField_value(field) # val)
                      => /\ stored.condition = "equal"
                         /\ stored.value = val]_vars

-----------------------------------------------------------------------------
(* Properties of useHttp *)

\* C40: loading is true in every state in which a request issued through the
\* hook has not settled, and false once every issued request has settled.
C40_LoadingWhileAnyPending ==
    /\ pending # <<>> => state.loading
    /\ pending = <<>> => ~state.loading

====
